---- MODULE Spec2Model ----
(***************************************************************************)
(* Issue migrator (GitHub <-> GitLab): the migration orchestrator and the  *)
(* attachment pipeline of backend/handlers (migrate_with_files).           *)
(*                                                                         *)
(* Text is modelled as a sequence of lexemes ("atoms").  Every character   *)
(* the regular expressions of the code single out                          *)
(*     <  >  "  '  [  ]  (  )  !  =  /  and the blank                      *)
(* is an atom of its own; every other atom is a run of characters none of  *)
(* which is one of these (a word, a scheme+host prefix, a file extension), *)
(* except the two path literals "/uploads/" and "/-/project/" and the      *)
(* scheme+host prefixes, which the code only ever treats as wholes.        *)
(* Regular expressions, strings.ReplaceAll, strings.Contains and the like  *)
(* are computed over atoms exactly as the code computes them over bytes.   *)
(***************************************************************************)
EXTENDS Integers, Sequences, FiniteSets, TLC

----------------------------------------------------------------------------
(* Bounds of the model *)

\* number of markup snippets a generated body is made of
MaxSnips == 2

\* number of issue IDs of a migration request
MaxIssues == 2

\* number of comments a source issue has
MaxComments == 2

\* number of external calls (SDK calls, downloads, uploads) that fail or
\* return an incomplete object during one migration request
MaxFaults == 2

----------------------------------------------------------------------------
(* strings *)

Min(S) == CHOOSE x \in S : \A y \in S : x <= y

Max(S) == CHOOSE x \in S : \A y \in S : x >= y

\* s[i..] starts with p
HasPrefixAt(s, i, p) ==
    /\ i >= 1
    /\ i + Len(p) - 1 <= Len(s)
    /\ \A k \in 1..Len(p) : s[i + k - 1] = p[k]

\* strings.HasPrefix
HasPrefix(s, p) == HasPrefixAt(s, 1, p)

\* strings.Contains
Contains(s, p) == \E i \in 1..(Len(s) + 1) : HasPrefixAt(s, i, p)

\* strings.Index (0 when absent; 1-based otherwise)
Index(s, p) ==
    IF Contains(s, p) THEN Min({i \in 1..(Len(s) + 1) : HasPrefixAt(s, i, p)}) ELSE 0

\* number of positions at which p occurs in s
Occurrences(s, p) == Cardinality({i \in 1..Len(s) : HasPrefixAt(s, i, p)})

RECURSIVE ReplaceFrom(_, _, _, _)
ReplaceFrom(s, old, new, i) ==
    IF i > Len(s) THEN << >>
    ELSE IF HasPrefixAt(s, i, old)
         THEN new \o ReplaceFrom(s, old, new, i + Len(old))
         ELSE << s[i] >> \o ReplaceFrom(s, old, new, i + 1)

\* strings.ReplaceAll for a non-empty old (every old the handlers pass is
\* a regexp match or a URL, hence non-empty)
ReplaceAll(s, old, new) == IF old = << >> THEN s ELSE ReplaceFrom(s, old, new, 1)

RECURSIVE Concat(_)
Concat(ss) == IF ss = << >> THEN << >> ELSE Head(ss) \o Concat(Tail(ss))

----------------------------------------------------------------------------
(* character classes of the regular expressions *)

Quote == {"\"", "'"}

Blank == {" "}

\* first index j >= i with s[j] in Stop, Len(s)+1 when there is none:
\* the end of the greedy run [^Stop]* started at i
RunEnd(s, i, Stop) ==
    LET C == {j \in i..Len(s) : s[j] \in Stop}
    IN  IF C = {} THEN Len(s) + 1 ELSE Min(C)

\* first index j >= i with s[j] not in Class: the end of the run [Class]*
RunEndIn(s, i, Class) ==
    LET C == {j \in i..Len(s) : s[j] \notin Class}
    IN  IF C = {} THEN Len(s) + 1 ELSE Min(C)

NoMatch == [ok |-> FALSE, start |-> 0, end |-> 0, g1 |-> << >>, g2 |-> << >>]

\* <tag[^>]*\sattr=["'](URL)["'][^>]*>  matched at i, where the URL group is
\* [^"']+ when url = <<>> and the quoted literal url otherwise.  [^>]* is
\* greedy: of the places where \sattr= can start, the last one that lets the
\* rest match is taken.
TagUrlEnd(s, j, url) ==
    IF url = << >> THEN RunEnd(s, j + 4, Quote)
    ELSE IF HasPrefixAt(s, j + 4, url) THEN j + 4 + Len(url)
    ELSE 0

\* \sattr=["'] starts at j, the URL group ends before k, and the rest matches
TagWorksUpTo(s, j, attr, k) ==
    /\ s[j] \in Blank
    /\ HasPrefixAt(s, j + 1, << attr, "=" >>)
    /\ j + 3 <= Len(s) /\ s[j + 3] \in Quote
    /\ k > j + 4
    /\ k <= Len(s) /\ s[k] \in Quote
    /\ RunEnd(s, k + 1, {">"}) <= Len(s)

TagWorks(s, j, attr, url) == TagWorksUpTo(s, j, attr, TagUrlEnd(s, j, url))

TagMatchUpTo(s, i, j, k) ==
    [ok |-> TRUE, start |-> i, end |-> RunEnd(s, k + 1, {">"}),
     g1 |-> SubSeq(s, j + 4, k - 1), g2 |-> << >>]

TagMatchFrom(s, i, j, url) == TagMatchUpTo(s, i, j, TagUrlEnd(s, j, url))

\* J: the places where \sattr= can start
TagMatchAmong(s, i, url, J) ==
    IF J = {} THEN NoMatch ELSE TagMatchFrom(s, i, Max(J), url)

TagMatchAt(s, i, tag, attr, url) ==
    IF ~HasPrefixAt(s, i, << "<", tag >>) THEN NoMatch
    ELSE TagMatchAmong(s, i, url,
            {j \in (i + 2)..(RunEnd(s, i + 2, {">"}) - 1) : TagWorks(s, j, attr, url)})

\* <a[^>]*\shref=["'](URL)["'][^>]*>([^<]*)</a>
LinkMatchUpTo(s, i, t, e) ==
    IF HasPrefixAt(s, e, << "<", "/", "a", ">" >>)
    THEN [ok |-> TRUE, start |-> i, end |-> e + 3,
          g1 |-> t.g1, g2 |-> SubSeq(s, t.end + 1, e - 1)]
    ELSE NoMatch

\* t: the match of the opening tag
LinkMatchAfter(s, i, t) ==
    IF ~t.ok THEN NoMatch ELSE LinkMatchUpTo(s, i, t, RunEnd(s, t.end + 1, {"<"}))

LinkMatchAt(s, i, url) == LinkMatchAfter(s, i, TagMatchAt(s, i, "a", "href", url))

\* \[([^\]]*)\]\(([^)]+)\) matched at i; minText is 0 for * and 1 for +
BracketMatchAt(s, i, minText) ==
    IF ~HasPrefixAt(s, i, << "[" >>) THEN NoMatch
    ELSE
    LET a == RunEnd(s, i + 1, {"]"})
        b == RunEnd(s, a + 2, {")"})
    IN  IF /\ a - (i + 1) >= minText
           /\ HasPrefixAt(s, a, << "]", "(" >>)
           /\ b > a + 2
           /\ b <= Len(s)
        THEN [ok |-> TRUE, start |-> i, end |-> b,
              g1 |-> SubSeq(s, i + 1, a - 1), g2 |-> SubSeq(s, a + 2, b - 1)]
        ELSE NoMatch

\* !\[([^\]]*)\]\(([^)]+)\)
StartingAt(m, i) == IF m.ok THEN [m EXCEPT !.start = i] ELSE NoMatch

MdImageMatchAt(s, i) ==
    IF ~HasPrefixAt(s, i, << "!" >>) THEN NoMatch
    ELSE StartingAt(BracketMatchAt(s, i + 1, 0), i)

\* alt=["']([^"']*)["']
AltMatchAt(s, i) ==
    IF /\ HasPrefixAt(s, i, << "alt", "=" >>)
       /\ i + 2 <= Len(s) /\ s[i + 2] \in Quote
       /\ RunEnd(s, i + 3, Quote) <= Len(s)
    THEN [ok |-> TRUE, start |-> i, end |-> RunEnd(s, i + 3, Quote),
          g1 |-> SubSeq(s, i + 3, RunEnd(s, i + 3, Quote) - 1), g2 |-> << >>]
    ELSE NoMatch

\* atoms made of characters of [a-f0-9] only
HexAtoms == {"c3", "d4", "7"}

\* atoms made of digits only
DigitAtoms == {"7"}

\* prefix([a-f0-9]+)/([^"'\s\)]+) matched at i
UploadPathMatchAt(s, i, prefix) ==
    LET h  == i + Len(prefix)
        he == RunEndIn(s, h, HexAtoms)
        ne == RunEnd(s, he + 1, Quote \cup Blank \cup {")"})
    IN  IF /\ HasPrefixAt(s, i, prefix)
           /\ he > h
           /\ HasPrefixAt(s, he, << "/" >>)
           /\ ne > he + 1
        THEN [ok |-> TRUE, start |-> i, end |-> ne - 1,
              g1 |-> SubSeq(s, h, he - 1), g2 |-> SubSeq(s, he + 1, ne - 1)]
        ELSE NoMatch

\* base/-/project/(\d+)/uploads/([a-f0-9]+)/([^"'\s\)]+) matched at i
ProjectUploadMatchAt(s, i, base) ==
    LET d  == i + Len(base) + 1
        de == RunEndIn(s, d, DigitAtoms)
    IN  IF /\ HasPrefixAt(s, i, base \o << "/-/project/" >>)
           /\ de > d
        THEN UploadPathMatchAt(s, i, SubSeq(s, i, de - 1) \o << "/uploads/" >>)
        ELSE NoMatch

\* the regular expressions of the handlers, by name
MatchAt(re, s, i) ==
    CASE re.kind = "imgTag"  -> TagMatchAt(s, i, "img", "src", re.url)
      [] re.kind = "link"    -> LinkMatchAt(s, i, re.url)
      [] re.kind = "mdImage" -> MdImageMatchAt(s, i)
      [] re.kind = "mdLink"  -> BracketMatchAt(s, i, 1)
      [] re.kind = "alt"     -> AltMatchAt(s, i)
      [] re.kind = "oldFormat"     -> UploadPathMatchAt(s, i, re.url \o << "/uploads/" >>)
      [] re.kind = "projectUpload" -> ProjectUploadMatchAt(s, i, re.url)

\* regexp.FindAllStringSubmatch(s, -1): leftmost matches, left to right,
\* not overlapping
RECURSIVE FindAllFrom(_, _, _)
\* m: the match at i
FindAllAfter(re, s, i, m) ==
    IF m.ok THEN << m >> \o FindAllFrom(re, s, m.end + 1)
    ELSE FindAllFrom(re, s, i + 1)

FindAllFrom(re, s, i) ==
    IF i > Len(s) THEN << >> ELSE FindAllAfter(re, s, i, MatchAt(re, s, i))

FindAll(re, s) == FindAllFrom(re, s, 1)

\* regexp.FindStringSubmatch: the first match, NoMatch when there is none
FirstOf(ms) == IF ms = << >> THEN NoMatch ELSE ms[1]

FindFirst(re, s) == FirstOf(FindAll(re, s))

MatchText(s, m) == SubSeq(s, m.start, m.end)

----------------------------------------------------------------------------
(* the attachment scanner *)

\* atoms that start with "http://" or "https://"
HttpAtoms == {"https://x.test/", "https://y.test/", "https://example.com/",
              "https://gitlab.com", "https://github.com/user-attachments/assets/"}

\* atoms that contain, in lower case, one of the extensions of fileExts
\* (".zip", ".png", and ".c" inside ".com")
FileExtAtoms == {".zip", ".png", "https://example.com/", "https://gitlab.com",
                 "https://github.com/user-attachments/assets/"}

\* isValidURL
isValidURL(url) == url # << >> /\ url[1] \in HttpAtoms

\* isFileURL: an extension of the list anywhere in the URL, or one of the
\* hosting patterns (of which the alphabet can spell "gitlab.com/uploads")
isFileURL(url) ==
    \/ \E k \in 1..Len(url) : url[k] \in FileExtAtoms
    \/ Contains(url, << "https://gitlab.com", "/uploads/" >>)
    \/ Contains(url, << "https://github.com/user-attachments/assets/" >>)

AttachmentInfo(url, isImage, text) ==
    [URL |-> url, NewURL |-> << >>, IsImage |-> isImage, OriginalText |-> text]

URLsOf(atts) == {atts[k].URL : k \in 1..Len(atts)}

\* ScanPass without the `!seen[url]` test
RECURSIVE ScanPassNoSeen(_, _, _, _, _, _)
ScanPassNoSeen(atts, ms, content, grp, isImage, mdLink) ==
    IF ms = << >> THEN atts
    ELSE LET m    == Head(ms)
             url  == IF grp = 1 THEN m.g1 ELSE m.g2
             text == MatchText(content, m)
             take == /\ mdLink => ~HasPrefix(text, << "!" >>)
                     /\ isValidURL(url)
                     /\ ~isImage => isFileURL(url)
         IN  ScanPassNoSeen(IF take THEN Append(atts, AttachmentInfo(url, isImage, text))
                                    ELSE atts,
                            Tail(ms), content, grp, isImage, mdLink)

\* one of the four passes of findAllAttachments over the matches ms of a
\* pattern: group grp holds the URL, `seen` is the set of URLs recorded so far
RECURSIVE ScanPass(_, _, _, _, _, _)
ScanPass(atts, ms, content, grp, isImage, mdLink) ==
    IF ms = << >> THEN atts
    ELSE LET m    == Head(ms)
             url  == IF grp = 1 THEN m.g1 ELSE m.g2
             text == MatchText(content, m)
             take == /\ url \notin URLsOf(atts)
                     /\ mdLink => ~HasPrefix(text, << "!" >>)
                     /\ isValidURL(url)
                     /\ ~isImage => isFileURL(url)
         IN  ScanPass(IF take THEN Append(atts, AttachmentInfo(url, isImage, text))
                              ELSE atts,
                      Tail(ms), content, grp, isImage, mdLink)

AnyURL == << >>

\* findAllAttachments with the Markdown-link pass run before the
\* Markdown-image pass
findAllAttachmentsLinksFirst(content) ==
    LET p1 == ScanPass(<< >>, FindAll([kind |-> "imgTag", url |-> AnyURL], content),
                       content, 1, TRUE, FALSE)
        p2 == ScanPass(p1, FindAll([kind |-> "mdLink"], content),
                       content, 2, FALSE, TRUE)
        p3 == ScanPass(p2, FindAll([kind |-> "link", url |-> AnyURL], content),
                       content, 1, FALSE, FALSE)
    IN  ScanPass(p3, FindAll([kind |-> "mdImage"], content),
                 content, 2, TRUE, FALSE)

findAllAttachments(content) ==
    LET p1 == ScanPass(<< >>, FindAll([kind |-> "imgTag", url |-> AnyURL], content),
                       content, 1, TRUE, FALSE)
        p2 == ScanPass(p1, FindAll([kind |-> "mdImage"], content),
                       content, 2, TRUE, FALSE)
        p3 == ScanPass(p2, FindAll([kind |-> "link", url |-> AnyURL], content),
                       content, 1, FALSE, FALSE)
    IN  ScanPass(p3, FindAll([kind |-> "mdLink"], content),
                 content, 2, FALSE, TRUE)

----------------------------------------------------------------------------
(* the GitLab uploader and the rewriter of processAttachments *)

\* req.Target.BaseURL
GitLabBaseURL == << "https://gitlab.com" >>

\* atoms whose first character is "/"
SlashAtoms == {"/", "/uploads/", "/-/project/"}

\* the secret directory GitLab generates for the n-th upload
Secrets == << "s1", "s2", "s3", "s4", "s5", "s6" >>

\* body of the upload response for the n-th upload: {"url": "/uploads/<secret>/f"}
UploadResponseURL(n) == << "/uploads/", Secrets[n], "/", "f" >>

\* req.Source.ProjectID, printed with %d
ProjectID == << "7" >>

\* the hint of the error for status 403 (projectID and ": " follow it)
TokenScopeHint ==
    " Forbidden - Check that your GitLab token has 'api' scope and write access to project "

\* the error of uploadFileToGitLab for a status other than 201 and 200;
\* %d of the status is ToString
UploadError(status, respBody) ==
    IF status = 403
    THEN << "upload failed with status ", "403", TokenScopeHint >> \o ProjectID
            \o << ": " >> \o respBody
    ELSE << "upload failed with status ", ToString(status), ": " >> \o respBody

\* a response body that is JSON without a "url" field
MessageJSON == << "{\"message\":\"403 Forbidden\"}" >>

\* response bodies json.Unmarshal rejects: a plain text, the empty body
NotJSON == { << TokenScopeHint >>, << >> }

\* uploadResult.URL after json.Unmarshal(respBody, &uploadResult): a body
\* written as a URL stands for the JSON object whose "url" field is that URL
UploadResultURL(respBody) == IF respBody = MessageJSON THEN << >> ELSE respBody

\* the URL returned for uploadResult.URL: baseURL is put before a leading "/"
WithBaseURL(url, baseURL) ==
    IF url # << >> /\ url[1] \in SlashAtoms THEN baseURL \o url ELSE url

\* uploadFileToGitLab with one error text for every status
uploadFileToGitLabOneError(status, respBody, baseURL) ==
    IF status # 201 /\ status # 200
    THEN [err |-> TRUE, url |-> << >>,
          msg |-> << "upload failed with status ", ToString(status), ": " >> \o respBody]
    ELSE IF respBody \in NotJSON
    THEN [err |-> TRUE, url |-> << >>, msg |-> << "invalid JSON" >>]
    ELSE [err |-> FALSE, url |-> WithBaseURL(UploadResultURL(respBody), baseURL),
          msg |-> << >>]

\* uploadFileToGitLab, given the status and the body of the response: the
\* returned URL and the error, msg being its text
uploadFileToGitLab(status, respBody, baseURL) ==
    IF status # 201 /\ status # 200
    THEN [err |-> TRUE, url |-> << >>, msg |-> UploadError(status, respBody)]
    ELSE IF respBody \in NotJSON
    THEN [err |-> TRUE, url |-> << >>, msg |-> << "invalid JSON" >>]
    ELSE [err |-> FALSE, url |-> WithBaseURL(UploadResultURL(respBody), baseURL),
          msg |-> << >>]

\* strings.Split(s, "/uploads/")[1]: what lies between the first and the
\* second "/uploads/" (or the end)
SplitUploads1(s) ==
    LET i == Index(s, << "/uploads/" >>)
        j == RunEnd(s, i + 1, {"/uploads/"})
    IN  SubSeq(s, i + 1, j - 1)

\* the URL written into the body (relativeURL)
RelativeURL(newURL) ==
    IF Contains(newURL, << "/uploads/" >>)
    THEN << "/uploads/" >> \o SplitUploads1(newURL)
    ELSE newURL

MarkdownImg(altText, url) == << "!", "[" >> \o altText \o << "]", "(" >> \o url \o << ")" >>

MarkdownLink(linkText, url) == << "[" >> \o linkText \o << "]", "(" >> \o url \o << ")" >>

\* the loop over the img tags found: each match is replaced, wherever it
\* occurs, by the Markdown image with its alt text
\* altText, given what altRegex found in the tag
AltTextOf(altMatch) ==
    IF altMatch.ok /\ altMatch.g1 # << >> THEN altMatch.g1 ELSE << "Image" >>

RECURSIVE ReplaceImgTags(_, _, _)
ReplaceImgTags(result, tags, relativeURL) ==
    IF tags = << >> THEN result
    ELSE ReplaceImgTags(
            ReplaceAll(result, Head(tags),
                       MarkdownImg(AltTextOf(FindFirst([kind |-> "alt"], Head(tags))),
                                   relativeURL)),
            Tail(tags), relativeURL)

\* the loop over the <a> links found; ms are match records of `on`
RECURSIVE ReplaceLinks(_, _, _, _)
ReplaceLinks(result, on, ms, relativeURL) ==
    IF ms = << >> THEN result
    ELSE LET m        == Head(ms)
             linkText == IF m.g2 # << >> THEN m.g2 ELSE << "Download" >>
         IN  ReplaceLinks(ReplaceAll(result, MatchText(on, m),
                                     MarkdownLink(linkText, relativeURL)),
                          on, Tail(ms), relativeURL)

RECURSIVE TextsOf(_, _)
TextsOf(s, ms) ==
    IF ms = << >> THEN << >> ELSE << MatchText(s, Head(ms)) >> \o TextsOf(s, Tail(ms))

\* variant: only the Markdown forms are rewritten
RewriteOneMarkdownOnly(result, oldURL, attachment) ==
    LET relativeURL == RelativeURL(attachment.NewURL)
    IN  ReplaceAll(result, << "(" >> \o oldURL \o << ")" >>,
                           << "(" >> \o relativeURL \o << ")" >>)

\* one iteration of the loop over urlMap
RewriteOne(result, oldURL, attachment) ==
    LET relativeURL == RelativeURL(attachment.NewURL)
    IN  IF attachment.IsImage
        THEN IF Contains(attachment.OriginalText, << "<", "img" >>)
             THEN ReplaceImgTags(result,
                                 TextsOf(result, FindAll([kind |-> "imgTag", url |-> oldURL], result)),
                                 relativeURL)
             ELSE ReplaceAll(result, << "(" >> \o oldURL \o << ")" >>,
                                     << "(" >> \o relativeURL \o << ")" >>)
        ELSE IF Contains(attachment.OriginalText, << "<", "a" >>)
             THEN ReplaceLinks(result, result,
                               FindAll([kind |-> "link", url |-> oldURL], result),
                               relativeURL)
             ELSE ReplaceAll(result, oldURL, relativeURL)

----------------------------------------------------------------------------
(* the GitLab -> GitHub pipeline: URL normalisation, scanner, uploader *)

\* regexp.ReplaceAllString(content, base/-/project/<id>/uploads/$1/$2) over
\* the matches ms of the old-format pattern, copying what lies between them
RECURSIVE ExpandOldFormat(_, _, _, _, _)
ExpandOldFormat(s, ms, from, baseURL, projectID) ==
    IF ms = << >> THEN SubSeq(s, from, Len(s))
    ELSE LET m == Head(ms)
         IN  SubSeq(s, from, m.start - 1)
             \o baseURL \o << "/-/project/" >> \o projectID \o << "/uploads/" >>
             \o m.g1 \o << "/" >> \o m.g2
             \o ExpandOldFormat(s, Tail(ms), m.end + 1, baseURL, projectID)

NoteHeader(baseURL) ==
    << "_Note: This issue contains attachments hosted on GitLab ", "(" >> \o baseURL
        \o << ")", ". These files will remain accessible as long as the GitLab project exists._\n\n" >>

\* the note put before a content that still has old-format URLs, once
WithNoteHeader(content0, baseURL) ==
    IF /\ Contains(content0, baseURL \o << "/uploads/" >>)
       /\ ~Contains(content0, NoteHeader(baseURL))
    THEN NoteHeader(baseURL) \o content0
    ELSE content0

\* fixGitLabAttachmentURLs
fixGitLabAttachmentURLs(content0, baseURL, projectID) ==
    IF content0 = << >> THEN content0
    ELSE
    LET new == << "/-/project/" >> \o projectID \o << "/uploads/" >>
        c1 == ReplaceAll(content0, << "]", "(", "/uploads/" >>, << "]", "(" >> \o new)
        c2 == ReplaceAll(c1, << "=", "\"", "/uploads/" >>, << "=", "\"" >> \o new)
        c3 == ReplaceAll(c2, << "=", "'", "/uploads/" >>, << "=", "'" >> \o new)
        c4 == ExpandOldFormat(c3, FindAll([kind |-> "oldFormat", url |-> baseURL], c3),
                              1, baseURL, projectID)
        c5 == ReplaceAll(c4, << "]", "(", "/-/project/" >>,
                             << "]", "(" >> \o baseURL \o << "/-/project/" >>)
        c6 == ReplaceAll(c5, << "=", "\"", "/-/project/" >>,
                             << "=", "\"" >> \o baseURL \o << "/-/project/" >>)
        c7 == ReplaceAll(c6, << "=", "'", "/-/project/" >>,
                             << "=", "'" >> \o baseURL \o << "/-/project/" >>)
    IN  WithNoteHeader(c7, baseURL)

GitLabAttachment(url, filename) == [URL |-> url, NewURL |-> << >>, Filename |-> filename]

RECURSIVE GitLabScanPass(_, _, _)
GitLabScanPass(atts, ms, content0) ==
    IF ms = << >> THEN atts
    ELSE LET fullURL == MatchText(content0, Head(ms))
         IN  GitLabScanPass(IF fullURL \notin URLsOf(atts)
                            THEN Append(atts, GitLabAttachment(fullURL, Head(ms).g2))
                            ELSE atts,
                            Tail(ms), content0)

\* findGitLabAttachments
findGitLabAttachments(content0, gitlabURL) ==
    GitLabScanPass(<< >>, FindAll([kind |-> "projectUpload", url |-> gitlabURL], content0),
                   content0)

\* policy.Asset.Href the GitHub policy endpoint gives for the n-th upload
AssetHref(n) == << "https://github.com/user-attachments/assets/", Secrets[n] >>

\* UploadToGitHubWithRepoAndReferer, given whether the policy request
\* succeeded, the asset href of the policy ("" = <<>>) and whether the byte
\* POST succeeded
UploadToGitHubWithRepoAndReferer(policyOK, href, s3OK) ==
    IF ~policyOK THEN [err |-> TRUE, url |-> << >>]
    ELSE IF ~s3OK /\ href = << >> THEN [err |-> TRUE, url |-> << >>]
    ELSE IF href # << >> THEN [err |-> FALSE, url |-> href]
    ELSE [err |-> TRUE, url |-> << >>]

UploadNotice == << "<!-- _GitHub_upload_notice_shown_ -->" >>

\* variant: the marker is appended at every failed upload
WithUploadNoticeAlways(content0) == content0 \o UploadNotice

\* the marker a failed GitHub upload leaves in content, once
WithUploadNotice(content0) ==
    IF ~Contains(content0, UploadNotice) THEN content0 \o UploadNotice ELSE content0

----------------------------------------------------------------------------
(* state *)

VARIABLES
    \* the migration request and the orchestrator's loop
    direction,      \* req.Direction
    issueIDs,       \* req.IssueIDs
    githubSession,  \* req.Target.Session ("" = <<>>)
    glClientOK,     \* whether gitlab.NewClient returned a client (not nil)
    pc,             \* where the handler is
    pos,            \* index in issueIDs of the issue being processed
    issue,          \* the source issue fetched for issueIDs[pos]
    newIssue,       \* the destination issue created for it
    comments,       \* the source comments listed for it
    cpos,           \* index in comments of the comment being processed
    success,        \* result.Success
    failed,         \* result.Failed
    calls,          \* the SDK calls made so far, in order
    destIssues,     \* the issues that exist on the destination
    faults,         \* number of external calls that failed so far
    \* one run of the attachment pipeline
    proc,           \* which pipeline runs: processAttachments / processGitLabToGitHub
    apc,            \* where the pipeline is
    input,          \* the body the pipeline was called with
    content,        \* the local variable content
    attachmentURLs, \* attachments found by the scanner
    idx,            \* index in attachmentURLs of the loop
    outcomes,       \* what happened to each attachment so far
    urlMap,         \* urlMap
    pending,        \* keys of urlMap the rewrite loop has not visited yet
    result,         \* the local variable result / the returned body
    \* one call of a function taken by itself
    fn,             \* the function that was called
    fpc,            \* where the call is
    args,           \* its arguments
    policy,         \* the upload policy the GitHub uploader received
    requests,       \* the HTTP requests sent so far, in order
    ret             \* what the call returned

orchVars == << direction, issueIDs, githubSession, glClientOK, pc, pos, issue, newIssue, comments,
               cpos, success, failed, calls, destIssues, faults >>

pipeVars == << proc, apc, input, content, attachmentURLs, idx, outcomes, urlMap,
               pending, result >>

unitVars == << fn, fpc, args, policy, requests, ret >>

vars == << orchVars, pipeVars, unitVars >>

----------------------------------------------------------------------------
(* processAttachments (GitHub -> GitLab) *)

\* what the download of an attachment can give: a request or transport
\* error, a status other than 200, an error while reading, or the bytes
DownloadResults == {"error", "status", "read", "ok"}

\* statuses the upload endpoint answers with
UploadStatuses == {201, 403}

EmptyMap == [u \in {} |-> 0]

\* an external call returns; `failing` tells whether it failed.  Within a
\* migration request at most MaxFaults calls fail.
Fault(failing) ==
    IF failing
    THEN (pc = "idle" \/ faults < MaxFaults) /\ faults' = faults + 1
    ELSE faults' = faults

\* entry of processAttachments up to the loop: empty content and a body
\* without attachments are returned as they are
ScanAttachments ==
    /\ proc = "processAttachments" /\ apc = "scan"
    /\ \E found \in {IF content = << >> THEN << >> ELSE findAllAttachments(content)} :
           /\ attachmentURLs' = found
           /\ idx' = 1
           /\ IF found = << >>
              THEN apc' = "done" /\ result' = content
              ELSE apc' = "download" /\ result' = << >>
    /\ outcomes' = << >>
    /\ urlMap' = EmptyMap
    /\ pending' = {}
    /\ UNCHANGED << proc, input, content, orchVars, unitVars >>

\* the map after attachment a got newURL
MapPut(m, a, newURL) ==
    [u \in (DOMAIN m) \cup {a.URL} |->
        IF u = a.URL THEN [a EXCEPT !.NewURL = newURL] ELSE m[u]]

\* one iteration of the download/upload loop; after the last one the loop
\* over urlMap starts from result := content
ProcessAttachment ==
    /\ proc = "processAttachments" /\ apc = "download"
    /\ \E d \in DownloadResults, status \in UploadStatuses :
        LET attachment == attachmentURLs[idx]
            up   == uploadFileToGitLab(status, UploadResponseURL(idx), GitLabBaseURL)
            kind == IF d # "ok" THEN "download"
                    ELSE IF up.err THEN "upload" ELSE "ok"
            m    == IF kind = "ok" THEN MapPut(urlMap, attachment, up.url) ELSE urlMap
        IN  /\ Fault(kind \notin {"ok", "nosession"})
            /\ outcomes' = Append(outcomes, kind)
            /\ urlMap' = m
            /\ idx' = idx + 1
            /\ IF idx < Len(attachmentURLs)
               THEN /\ apc' = "download"
                    /\ UNCHANGED << pending, result >>
               ELSE /\ result' = content
                    /\ pending' = DOMAIN m
                    /\ apc' = IF DOMAIN m = {} THEN "done" ELSE "rewrite"
    /\ UNCHANGED << proc, input, content, attachmentURLs, unitVars, direction, issueIDs, githubSession,
                    glClientOK, pc, pos, issue, newIssue, comments, cpos, success, failed,
                    calls, destIssues >>

\* one iteration of `for oldURL, attachment := range urlMap`, in the order
\* the Go runtime happens to pick
RewriteEntry ==
    /\ proc = "processAttachments" /\ apc = "rewrite"
    /\ \E oldURL \in pending :
        /\ result' = RewriteOne(result, oldURL, urlMap[oldURL])
        /\ pending' = pending \ {oldURL}
        /\ apc' = IF pending = {oldURL} THEN "done" ELSE "rewrite"
    /\ UNCHANGED << proc, input, content, attachmentURLs, idx, outcomes, urlMap, orchVars, unitVars >>

----------------------------------------------------------------------------
(* processGitLabToGitHub (GitLab -> GitHub) *)

\* entry of processGitLabToGitHub up to the loop: the content is normalised
\* first; without attachments the normalised content is returned
ScanGitLab ==
    /\ proc = "processGitLabToGitHub" /\ apc = "scan"
    /\ \E fixed \in {fixGitLabAttachmentURLs(content, GitLabBaseURL, ProjectID)} :
       \E found \in {IF content = << >> THEN << >>
                      ELSE findGitLabAttachments(fixed, GitLabBaseURL)} :
           /\ content' = fixed
           /\ attachmentURLs' = found
           /\ idx' = 1
           /\ IF found = << >>
              THEN apc' = "done" /\ result' = fixed
              ELSE apc' = "download" /\ result' = << >>
    /\ outcomes' = << >>
    /\ urlMap' = EmptyMap
    /\ pending' = {}
    /\ UNCHANGED << proc, input, orchVars, unitVars >>

\* one iteration of the download/upload loop; a failed GitHub upload leaves
\* the notice marker in content, once
ProcessGitLabAttachment ==
    /\ proc = "processGitLabToGitHub" /\ apc = "download"
    /\ \E d \in DownloadResults, policyOK \in BOOLEAN, hasHref \in BOOLEAN, s3OK \in BOOLEAN :
        LET attachment == attachmentURLs[idx]
            up   == UploadToGitHubWithRepoAndReferer(policyOK,
                        IF hasHref THEN AssetHref(idx) ELSE << >>, s3OK)
            kind == IF d # "ok" THEN "download"
                    ELSE IF githubSession = << >> THEN "nosession"
                    ELSE IF up.err THEN "upload" ELSE "ok"
            m    == IF kind = "ok" THEN MapPut(urlMap, attachment, up.url) ELSE urlMap
            c    == IF kind = "upload" THEN WithUploadNotice(content) ELSE content
        IN  /\ Fault(kind \notin {"ok", "nosession"})
            /\ outcomes' = Append(outcomes, kind)
            /\ urlMap' = m
            /\ content' = c
            /\ idx' = idx + 1
            /\ IF idx < Len(attachmentURLs)
               THEN /\ apc' = "download"
                    /\ UNCHANGED << pending, result >>
               ELSE /\ result' = c
                    /\ pending' = DOMAIN m
                    /\ apc' = IF DOMAIN m = {} THEN "done" ELSE "rewrite"
    /\ UNCHANGED << proc, input, attachmentURLs, unitVars, direction, issueIDs, githubSession,
                    glClientOK, pc, pos, issue, newIssue, comments, cpos, success, failed,
                    calls, destIssues >>

\* one iteration of `for oldURL, newURL := range urlMap`
RewriteGitLabEntry ==
    /\ proc = "processGitLabToGitHub" /\ apc = "rewrite"
    /\ \E oldURL \in pending :
        /\ result' = ReplaceAll(result, oldURL, urlMap[oldURL].NewURL)
        /\ pending' = pending \ {oldURL}
        /\ apc' = IF pending = {oldURL} THEN "done" ELSE "rewrite"
    /\ UNCHANGED << proc, input, content, attachmentURLs, idx, outcomes, urlMap, orchVars, unitVars >>

----------------------------------------------------------------------------
(* bodies *)

Sp == << " " >>

UA == << "https://x.test/", "a", ".zip" >>

UB == UA \o << ".png" >>

UC == << "https://y.test/", "c", ".png" >>

\* an ordinary page
UP == << "https://example.com/", "page" >>

HtmlImg(u) == << "<", "img", " ", "src", "=", "\"" >> \o u \o << "\"", ">" >>

HtmlImgAlt(alt, u) ==
    << "<", "img", " ", "alt", "=", "'" >> \o alt \o << "'", " ", "src", "=", "\"" >>
        \o u \o << "\"", ">" >>

MdImg(alt, u) == MarkdownImg(alt, u)

HtmlLink(text, u) ==
    << "<", "a", " ", "href", "=", "\"" >> \o u \o << "\"", ">" >> \o text
        \o << "<", "/", "a", ">" >>

MdLink(text, u) == MarkdownLink(text, u)

FormsOf(u) ==
    { HtmlImg(u), HtmlImgAlt(<< "t" >>, u), HtmlImgAlt(<< >>, u), MdImg(<< "t" >>, u),
      HtmlLink(<< "t" >>, u), HtmlLink(<< >>, u), MdLink(<< "t" >>, u), u }

Snippets ==
    FormsOf(UA) \cup FormsOf(UB)
        \cup { HtmlImg(UC), MdImg(<< "t" >>, UC), MdLink(<< "t" >>, UC),
               MdLink(<< "<", "a", ">" >>, UC), MdLink(<< "t" >>, UP) }

\* bodies of at most n of the snippets S, separated by blanks
RECURSIVE BodiesOf(_, _)
BodiesOf(S, n) ==
    IF n = 0 THEN { << >> }
    ELSE LET B == BodiesOf(S, n - 1)
         IN  B \cup S \cup { b \o Sp \o x : b \in B \ { << >> }, x \in S }

Bodies == BodiesOf(Snippets, MaxSnips)

\* GitLab upload URLs: relative and absolute, old and new format
RelOld(hash, name) == << "/uploads/", hash, "/" >> \o name

RelNew(hash, name) == << "/-/project/" >> \o ProjectID \o RelOld(hash, name)

Pic == << "pic" >>

PicPng == << "pic", ".png" >>

GitLabSnippets ==
    { MdImg(<< "t" >>, RelOld("c3", PicPng)),
      HtmlImg(RelOld("c3", PicPng)),
      MdImg(<< "t" >>, RelNew("c3", PicPng)),
      MdImg(<< "t" >>, GitLabBaseURL \o RelOld("c3", PicPng)),
      GitLabBaseURL \o RelOld("d4", Pic),
      MdImg(<< "t" >>, GitLabBaseURL \o RelNew("c3", PicPng)),
      HtmlImg(GitLabBaseURL \o RelNew("c3", PicPng)),
      GitLabBaseURL \o RelNew("c3", PicPng),
      MdLink(<< "t" >>, GitLabBaseURL \o RelNew("c3", Pic)),
      GitLabBaseURL \o RelNew("c3", Pic),
      GitLabBaseURL \o RelOld("s1", << "f" >>),
      MdImg(<< "t" >>, UC),
      << "t" >> }

GitLabBodies == BodiesOf(GitLabSnippets, MaxSnips)

----------------------------------------------------------------------------
(* the migration request: MigrateWithFiles, migrateGHtoGLWithFiles and      *)
(* migrateGLtoGHWithFiles                                                   *)

Directions == {"github-to-gitlab", "gitlab-to-github", "sideways"}

\* the requested IDs: prefixes of these lists, so that a request can name
\* an issue twice, in a row or after another one
IDPools == { << 1, 1 >>, << 1, 2, 1, 2 >> }

\* err.Error() of a failed fetch and of a failed create
FetchError == "404 Not Found"

CreateError == "403 Forbidden"

\* the body of a source issue or comment, per direction
SourceBody(dir) ==
    IF dir = "github-to-gitlab" THEN MdImg(<< "t" >>, UC)
    ELSE MdImg(<< "t" >>, RelOld("c3", PicPng))

Pipeline(dir) ==
    IF dir = "github-to-gitlab" THEN "processAttachments" ELSE "processGitLabToGitHub"

\* a fetched issue or comment; complete = its Author and CreatedAt are set
Fetched(body, complete) == [body |-> body, complete |-> complete]

NoIssue == Fetched(<< >>, TRUE)

MigrationStatus(originalID, newID, newURL, error) ==
    [OriginalID |-> originalID, NewID |-> newID, NewURL |-> newURL, Error |-> error]

\* newIssue.WebURL / newIssue.GetHTMLURL() of destination issue n
WebURL(n) == << "issue", n >>

MigrationHeader(dir) ==
    IF dir = "github-to-gitlab" THEN << "### Migrated from GitHub ... ---\n\n" >>
    ELSE << "### Migrated from GitLab ... ---\n\n" >>

CommentHeader == << "**@author** commented on <date>", "\n\n" >>

\* an SDK call: op on the issue at position k of issueIDs; att tells whether
\* every attachment of the body sent was migrated; n is the number of
\* comments listed or the number of the issue created
Call(op, k, ok, err, att, n) ==
    [op |-> op, pos |-> k, ok |-> ok, err |-> err, att |-> att, n |-> n]

AllMigrated == \A k \in 1..Len(outcomes) : outcomes[k] = "ok"

StartPipeline(p, body) ==
    /\ proc' = p /\ apc' = "scan" /\ input' = body /\ content' = body
    /\ attachmentURLs' = << >> /\ idx' = 0 /\ outcomes' = << >>
    /\ urlMap' = EmptyMap /\ pending' = {} /\ result' = << >>

PipelineIdle ==
    /\ proc' = "none" /\ apc' = "idle" /\ input' = << >> /\ content' = << >>
    /\ attachmentURLs' = << >> /\ idx' = 0 /\ outcomes' = << >>
    /\ urlMap' = EmptyMap /\ pending' = {} /\ result' = << >>

\* the nil pointer dereference of a missing client or field; gin's recovery
\* answers 500 and the request ends without a ledger
Panic ==
    /\ pc' = "panicked"
    /\ PipelineIdle
    /\ UNCHANGED << unitVars, direction, issueIDs, githubSession, glClientOK, pos, issue, newIssue,
                    comments, cpos, success, failed, calls, destIssues, faults >>

\* variant: the failed entry is not recorded
AppendFailedDropped(err) == failed' = failed

\* result.Failed = append(result.Failed, MigrationStatus{OriginalID, Error})
AppendFailed(err) ==
    failed' = Append(failed, MigrationStatus(issueIDs[pos], 0, << >>, err))

\* variant: `break` instead of `continue`
FailIssueBreak(err) ==
    /\ AppendFailed(err)
    /\ pos' = Len(issueIDs) + 1
    /\ pc' = "loop"

\* the failed entry and `continue`
FailIssue(err) ==
    /\ AppendFailed(err)
    /\ pos' = pos + 1
    /\ pc' = "loop"

\* MigrateWithFiles up to the call of the migration function, or the 400
MigrateWithFiles ==
    /\ pc = "idle"
    /\ IF direction \in {"github-to-gitlab", "gitlab-to-github"}
       THEN pc' = "loop" /\ pos' = 1
       ELSE pc' = "rejected" /\ pos' = 0
    /\ UNCHANGED << unitVars, direction, issueIDs, githubSession, glClientOK, issue, newIssue,
                    comments, cpos, success, failed, calls, destIssues, faults, pipeVars >>

\* the end of the loop, `return result` and c.JSON(http.StatusOK, results)
Respond ==
    /\ pc = "loop" /\ pos > Len(issueIDs)
    /\ pc' = "done"
    /\ UNCHANGED << unitVars, direction, issueIDs, githubSession, glClientOK, pos, issue, newIssue,
                    comments, cpos, success, failed, calls, destIssues, faults, pipeVars >>

\* ghClient.Issues.Get / glClient.Issues.GetIssue and what follows up to the
\* call of the pipeline on the body
FetchIssue ==
    /\ pc = "loop" /\ pos <= Len(issueIDs)
    /\ IF direction = "gitlab-to-github" /\ ~glClientOK
       THEN Panic
       ELSE \E r \in {"error", "ok", "incomplete"} :
            /\ r = "incomplete" => direction = "gitlab-to-github"
            /\ Fault(r # "ok")
            /\ calls' = Append(calls, Call("Get", pos, r # "error",
                                           IF r = "error" THEN FetchError ELSE "", TRUE, 0))
            /\ IF r = "error"
               THEN /\ FailIssue(FetchError)
                    /\ UNCHANGED << issue, pipeVars >>
               ELSE /\ issue' = Fetched(SourceBody(direction), r = "ok")
                    /\ pc' = "body"
                    /\ StartPipeline(Pipeline(direction), SourceBody(direction))
                    /\ UNCHANGED << failed, pos >>
            /\ UNCHANGED << unitVars, direction, issueIDs, githubSession, glClientOK, newIssue,
                            comments, cpos, success, destIssues >>

\* variant: an issue already migrated is not created again, its destination
\* issue is reused
CreateWithOnce(ok) ==
    IF \E n \in 1..Len(destIssues) : destIssues[n].orig = issueIDs[pos]
    THEN /\ newIssue' = CHOOSE n \in 1..Len(destIssues) : destIssues[n].orig = issueIDs[pos]
         /\ pc' = "comments"
         /\ PipelineIdle
         /\ UNCHANGED << unitVars, direction, issueIDs, githubSession, glClientOK, issue,
                         comments, cpos, success, failed, pos, calls, destIssues, faults >>
    ELSE LET description == MigrationHeader(direction) \o result
             n == Len(destIssues) + 1
         IN  /\ Fault(~ok)
             /\ calls' = Append(calls, Call("Create", pos, ok,
                                            IF ok THEN "" ELSE CreateError, AllMigrated,
                                            IF ok THEN n ELSE 0))
             /\ IF ok
                THEN /\ destIssues' = Append(destIssues,
                             [orig |-> issueIDs[pos], body |-> description, notes |-> << >>])
                     /\ newIssue' = n
                     /\ pc' = "comments"
                     /\ UNCHANGED << failed, pos >>
                ELSE /\ FailIssue(CreateError)
                     /\ UNCHANGED << destIssues, newIssue >>
             /\ PipelineIdle
             /\ UNCHANGED << unitVars, direction, issueIDs, githubSession, glClientOK, issue,
                             comments, cpos, success >>

\* the creation call and what follows it, for a call that succeeds or not
CreateWith(ok) ==
            LET description == MigrationHeader(direction) \o result
                n == Len(destIssues) + 1
            IN  /\ Fault(~ok)
                /\ calls' = Append(calls, Call("Create", pos, ok,
                                               IF ok THEN "" ELSE CreateError, AllMigrated,
                                               IF ok THEN n ELSE 0))
                /\ IF ok
                   THEN /\ destIssues' = Append(destIssues,
                                [orig |-> issueIDs[pos], body |-> description, notes |-> << >>])
                        /\ newIssue' = n
                        /\ pc' = "comments"
                        /\ UNCHANGED << failed, pos >>
                   ELSE /\ FailIssue(CreateError)
                        /\ UNCHANGED << destIssues, newIssue >>
                /\ PipelineIdle
                /\ UNCHANGED << unitVars, direction, issueIDs, githubSession, glClientOK, issue,
                                comments, cpos, success >>

\* variant: an attachment that could not be migrated fails the issue
CreateIssueAllOrNothing ==
    /\ pc = "body" /\ apc = "done"
    /\ IF \/ direction = "github-to-gitlab" /\ ~glClientOK
          \/ direction = "gitlab-to-github" /\ ~issue.complete
       THEN Panic
       ELSE IF ~AllMigrated
       THEN /\ FailIssue("attachment failed")
            /\ PipelineIdle
            /\ UNCHANGED << unitVars, direction, issueIDs, githubSession, glClientOK, issue, newIssue,
                            comments, cpos, success, calls, destIssues, faults >>
       ELSE \E ok \in BOOLEAN : CreateWith(ok)

\* the header, labels and glClient.Issues.CreateIssue / ghClient.Issues.Create
\* once the pipeline has returned the processed body
CreateIssue ==
    /\ pc = "body" /\ apc = "done"
    /\ IF \/ direction = "github-to-gitlab" /\ ~glClientOK
          \/ direction = "gitlab-to-github" /\ ~issue.complete
       THEN Panic
       ELSE \E ok \in BOOLEAN : CreateWith(ok)



\* variant: the success entry is put in front of the ledger
AppendSuccessInFront ==
    /\ success' = << MigrationStatus(issueIDs[pos], newIssue, WebURL(newIssue), "") >>
                  \o success
    /\ pos' = pos + 1
    /\ pc' = "loop"

\* result.Success = append(...) at the end of the iteration
AppendSuccess ==
    /\ success' = Append(success,
                         MigrationStatus(issueIDs[pos], newIssue, WebURL(newIssue), ""))
    /\ pos' = pos + 1
    /\ pc' = "loop"

\* ghClient.Issues.ListComments / glClient.Notes.ListIssueNotes: an error is
\* skipped over (`if err == nil { ... }`), an empty list ends the iteration
ListComments ==
    /\ pc = "comments"
    /\ \E ok \in BOOLEAN, n \in 0..MaxComments, complete \in BOOLEAN :
        /\ ~ok => n = 0
        /\ ~complete => direction = "gitlab-to-github" /\ n > 0
        /\ Fault(~ok \/ ~complete)
        /\ calls' = Append(calls, Call("ListComments", pos, ok, "", TRUE, n))
        /\ comments' = [k \in 1..n |-> Fetched(SourceBody(direction), complete \/ k < n)]
        /\ IF n = 0
           THEN /\ AppendSuccess
                /\ cpos' = 0
                /\ UNCHANGED pipeVars
           ELSE /\ cpos' = 1
                /\ pc' = "comment"
                /\ StartPipeline(Pipeline(direction), SourceBody(direction))
                /\ UNCHANGED << success, pos >>
    /\ UNCHANGED << unitVars, direction, issueIDs, githubSession, glClientOK, issue, newIssue,
                    failed, destIssues >>

\* variant: a failed post ends the loop over the comments
NextCommentBreak(posted) ==
    IF posted /\ cpos < Len(comments)
    THEN /\ cpos' = cpos + 1
         /\ StartPipeline(Pipeline(direction), comments[cpos + 1].body)
         /\ UNCHANGED << success, pos, pc >>
    ELSE /\ AppendSuccess
         /\ cpos' = 0
         /\ PipelineIdle

\* variant: the iteration ends before the last comment is posted
NextCommentButLast(posted) ==
    IF cpos + 1 < Len(comments)
    THEN /\ cpos' = cpos + 1
         /\ StartPipeline(Pipeline(direction), comments[cpos + 1].body)
         /\ UNCHANGED << success, pos, pc >>
    ELSE /\ AppendSuccess
         /\ cpos' = 0
         /\ PipelineIdle

\* the end of an iteration of the loop over the comments, whose post
\* succeeded or not: on to the next comment, or to the success entry after
\* the last one
NextComment(posted) ==
    IF cpos < Len(comments)
    THEN /\ cpos' = cpos + 1
         /\ StartPipeline(Pipeline(direction), comments[cpos + 1].body)
         /\ UNCHANGED << success, pos, pc >>
    ELSE /\ AppendSuccess
         /\ cpos' = 0
         /\ PipelineIdle

\* the comment header and glClient.Notes.CreateIssueNote /
\* ghClient.Issues.CreateComment once the pipeline has returned; a failure is
\* at most logged; after the last comment the success entry is appended
PostComment ==
    /\ pc = "comment" /\ apc = "done"
    /\ IF direction = "gitlab-to-github" /\ ~comments[cpos].complete
       THEN Panic
       ELSE \E ok \in BOOLEAN :
            LET body == CommentHeader \o result
            IN  /\ Fault(~ok)
                /\ calls' = Append(calls, Call("CreateNote", pos, ok, "", AllMigrated, newIssue))
                /\ destIssues' = IF ok
                                 THEN [destIssues EXCEPT ![newIssue].notes = Append(@, body)]
                                 ELSE destIssues
                /\ NextComment(ok)
                /\ UNCHANGED << unitVars, direction, issueIDs, githubSession, glClientOK, issue,
                                newIssue, comments, failed >>

----------------------------------------------------------------------------
(* specification of the two pipelines as functions of the body, the         *)
(* download/upload outcomes and the map iteration order                     *)

OrchIdle ==
    /\ direction = "none" /\ issueIDs = << >> /\ glClientOK = TRUE
    /\ pc = "idle" /\ pos = 0 /\ issue = NoIssue /\ newIssue = 0
    /\ comments = << >> /\ cpos = 0 /\ success = << >> /\ failed = << >>
    /\ calls = << >> /\ destIssues = << >> /\ faults = 0

\* no function is called by itself
UnitIdle ==
    /\ fn = "none" /\ fpc = "idle" /\ args = << >> /\ policy = << >>
    /\ requests = << >> /\ ret = << >>

PipeStart(p, body) ==
    /\ proc = p /\ apc = "scan" /\ input = body /\ content = body
    /\ attachmentURLs = << >> /\ idx = 0 /\ outcomes = << >>
    /\ urlMap = EmptyMap /\ pending = {} /\ result = << >>

Sessions == { << >>, << "user_session" >> }

InitPipeline ==
    /\ OrchIdle
    /\ UnitIdle
    /\ \/ /\ githubSession = << >>
          /\ \E body \in Bodies : PipeStart("processAttachments", body)
       \/ /\ githubSession \in Sessions
          /\ \E body \in GitLabBodies : PipeStart("processGitLabToGitHub", body)

NextPipeline ==
    \/ ScanAttachments
    \/ ProcessAttachment
    \/ RewriteEntry
    \/ ScanGitLab
    \/ ProcessGitLabAttachment
    \/ RewriteGitLabEntry

SpecPipeline == InitPipeline /\ [][NextPipeline]_vars

----------------------------------------------------------------------------
(* specification of a migration request *)

Init ==
    /\ direction \in Directions
    /\ \E pool \in IDPools, n \in 0..MaxIssues :
          n <= Len(pool) /\ issueIDs = SubSeq(pool, 1, n)
    /\ githubSession = << "user_session" >>
    /\ glClientOK \in BOOLEAN
    /\ pc = "idle" /\ pos = 0 /\ issue = NoIssue /\ newIssue = 0
    /\ comments = << >> /\ cpos = 0 /\ success = << >> /\ failed = << >>
    /\ calls = << >> /\ destIssues = << >> /\ faults = 0
    /\ proc = "none" /\ apc = "idle" /\ input = << >> /\ content = << >>
    /\ attachmentURLs = << >> /\ idx = 0 /\ outcomes = << >>
    /\ urlMap = EmptyMap /\ pending = {} /\ result = << >>
    /\ UnitIdle

Next ==
    \/ MigrateWithFiles
    \/ FetchIssue
    \/ ScanAttachments
    \/ ProcessAttachment
    \/ RewriteEntry
    \/ ScanGitLab
    \/ ProcessGitLabAttachment
    \/ RewriteGitLabEntry
    \/ CreateIssue
    \/ ListComments
    \/ PostComment
    \/ Respond

Spec == Init /\ [][Next]_vars

----------------------------------------------------------------------------
(* the ledger of a migration request (specification Spec) *)

Returned == pc = "done"

IssueIDValues == {issueIDs[k] : k \in 1..Len(issueIDs)}

EntriesFor(ledger, id) == Cardinality({j \in 1..Len(ledger) : ledger[j].OriginalID = id})

PositionsOf(id) == Cardinality({k \in 1..Len(issueIDs) : issueIDs[k] = id})

CallsWhere(op, k) == {j \in 1..Len(calls) : calls[j].op = op /\ calls[j].pos = k}

FailedCall(j) == calls[j].op \in {"Get", "Create"} /\ ~calls[j].ok

\* the failed entries the failing Get and Create calls of log give, in order
RECURSIVE FailedEntriesOf(_)
FailedEntriesOf(log) ==
    IF log = << >> THEN << >>
    ELSE LET c == Head(log)
         IN  (IF c.op \in {"Get", "Create"} /\ ~c.ok
              THEN << MigrationStatus(issueIDs[c.pos], 0, << >>, c.err) >> ELSE << >>)
             \o FailedEntriesOf(Tail(log))

\* the success entries the successful Create calls of log give, in order
RECURSIVE SuccessEntriesOf(_)
SuccessEntriesOf(log) ==
    IF log = << >> THEN << >>
    ELSE LET c == Head(log)
         IN  (IF c.op = "Create" /\ c.ok
              THEN << MigrationStatus(issueIDs[c.pos], c.n, WebURL(c.n), "") >> ELSE << >>)
             \o SuccessEntriesOf(Tail(log))

\* C1: when the migration run returns, the success and failed lists hold
\* together exactly one entry per position of issue_ids (as many entries
\* for an ID as the request names it), success entries carry no error and
\* failed entries carry one, so that the lengths add up to len(issue_ids).
C1_LedgerPartition ==
    Returned =>
        /\ Len(success) + Len(failed) = Len(issueIDs)
        /\ \A id \in IssueIDValues :
             EntriesFor(success, id) + EntriesFor(failed, id) = PositionsOf(id)
        /\ \A j \in 1..Len(success) : success[j].Error = "" /\ success[j].OriginalID \in IssueIDValues
        /\ \A j \in 1..Len(failed) : failed[j].Error # "" /\ failed[j].OriginalID \in IssueIDValues

\* a run that returned with the same ID requested twice, once migrated and
\* once failed
C1_Witness ==
    /\ Returned
    /\ Len(issueIDs) = 2 /\ issueIDs[1] = issueIDs[2]
    /\ Len(success) = 1 /\ Len(failed) = 1

\* C2: a failed fetch or a failed create of an ID gives a failed entry with
\* the error string of that call; after a failed fetch no other call is made
\* for that position, after a failed create no comment is listed or posted
\* for it; and every position of issue_ids is fetched before the run returns.
C2_FailureContainment ==
    /\ pc \in {"loop", "done"} => failed = FailedEntriesOf(calls)
    /\ \A j \in 1..Len(calls) :
         FailedCall(j) => \A i \in (j + 1)..Len(calls) : calls[i].pos # calls[j].pos
    /\ \A j \in 1..Len(calls) :
         calls[j].op = "Get" /\ ~calls[j].ok => CallsWhere("Create", calls[j].pos) = {}
    /\ Returned => \A k \in 1..Len(issueIDs) : CallsWhere("Get", k) # {}

\* a run that returned after a failed fetch of the first ID and a failed
\* create of the second
C2_Witness ==
    /\ Returned
    /\ Len(calls) = 3
    /\ calls[1].op = "Get" /\ ~calls[1].ok /\ calls[1].pos = 1
    /\ calls[3].op = "Create" /\ ~calls[3].ok /\ calls[3].pos = 2
    /\ Len(failed) = 2

\* C3: when the run returns, every issue whose creation succeeded has its
\* success entry (with the number and URL of the issue created), whatever
\* happened to its comments, and every comment listed was posted or at least
\* attempted.
C3_CommentFailuresSkipped ==
    Returned =>
        /\ success = SuccessEntriesOf(calls)
        /\ \A j \in 1..Len(calls) :
             calls[j].op = "ListComments" /\ calls[j].ok =>
                 Cardinality(CallsWhere("CreateNote", calls[j].pos)) = calls[j].n

\* a run that returned with an issue in success one of whose comments failed
\* to post and the next one was posted
C3_Witness ==
    /\ Returned
    /\ \E j \in 1..(Len(calls) - 1) :
         /\ calls[j].op = "CreateNote" /\ ~calls[j].ok
         /\ calls[j + 1].op = "CreateNote" /\ calls[j + 1].ok
         /\ calls[j + 1].pos = calls[j].pos
         /\ \E e \in 1..Len(success) : success[e].NewID = calls[j].n

\* C4: if listing the source comments of an issue fails, that issue is
\* reported in failed and not in success (while the other IDs are processed).
C4_CommentFetchFailureFailsIssue ==
    Returned =>
        \A j \in 1..Len(calls) :
            calls[j].op = "ListComments" /\ ~calls[j].ok =>
                /\ \A c \in CallsWhere("Create", calls[j].pos) :
                     \A e \in 1..Len(success) : success[e].NewID # calls[c].n
                /\ EntriesFor(failed, issueIDs[calls[j].pos]) > 0

\* C6: when the run returns, creation was attempted for every issue that was
\* fetched, and every issue created is in success, also when attachments of
\* its body or of its comments could not be migrated.
C6_LedgerIndependentOfAttachments ==
    Returned =>
        /\ \A j \in 1..Len(calls) :
             calls[j].op = "Get" /\ calls[j].ok => CallsWhere("Create", calls[j].pos) # {}
        /\ \A j \in 1..Len(calls) :
             /\ calls[j].op = "Create" /\ calls[j].ok
             /\ \/ ~calls[j].att
                \/ \E i \in CallsWhere("CreateNote", calls[j].pos) : ~calls[i].att
             => \E e \in 1..Len(success) :
                  /\ success[e].NewID = calls[j].n
                  /\ success[e].OriginalID = issueIDs[calls[j].pos]

\* a run that returned with an issue in success although an attachment of
\* its body and an attachment of one of its comments were not migrated
C6_Witness ==
    /\ Returned
    /\ \E j \in 1..Len(calls) :
         /\ calls[j].op = "Create" /\ calls[j].ok /\ ~calls[j].att
         /\ \E i \in CallsWhere("CreateNote", calls[j].pos) : ~calls[i].att
         /\ \E e \in 1..Len(success) : success[e].NewID = calls[j].n

----------------------------------------------------------------------------
(* the attachment pipelines as functions of the body (specification        *)
(* SpecPipeline)                                                            *)

PipelineReturned(p) == proc = p /\ apc = "done"

Attachments == {attachmentURLs[k] : k \in 1..Len(attachmentURLs)}

\* what the rewriter writes for a migrated attachment
WrittenURL(u) == RelativeURL(urlMap[u].NewURL)

\* occurrences of u in s as a text of its own, between blanks
BareOccurrences(s, u) ==
    Cardinality({i \in 1..Len(s) :
        /\ HasPrefixAt(s, i, u)
        /\ i = 1 \/ s[i - 1] = " "
        /\ i + Len(u) > Len(s) \/ s[i + Len(u)] = " "})

\* occurrences of u in s that end where a URL ends, not inside a longer URL
WholeOccurrences(s, u) ==
    Cardinality({i \in 1..Len(s) :
        /\ HasPrefixAt(s, i, u)
        /\ i + Len(u) > Len(s) \/ s[i + Len(u)] \in Quote \cup Blank \cup {")"}})

\* C5: when processAttachments returns, every attachment found was
\* attempted; one whose download or upload failed has no entry in the URL
\* map and its URL occurs in the output wherever it occurred in the input;
\* one that succeeded has its entry and its destination URL is in the output.
C5_BestEffortPerAttachment ==
    PipelineReturned("processAttachments") =>
        /\ Len(outcomes) = Len(attachmentURLs)
        /\ \A k \in 1..Len(attachmentURLs) :
             LET u == attachmentURLs[k].URL
             IN  IF outcomes[k] = "ok"
                 THEN u \in DOMAIN urlMap /\ Contains(result, WrittenURL(u))
                 ELSE /\ u \notin DOMAIN urlMap
                      /\ WholeOccurrences(result, u) = WholeOccurrences(input, u)

AllUploaded == attachmentURLs # << >> /\ AllMigrated

\* every source URL occurs once in the body (occurrences inside a longer URL
\* counted), and a Markdown construct it was found in has no "<img" or "<a"
\* in its text
SingleUse ==
    \A a \in Attachments :
        /\ Occurrences(input, a.URL) = 1
        /\ a.OriginalText[1] \in {"!", "["} =>
             /\ ~Contains(a.OriginalText, << "<", "img" >>)
             /\ ~Contains(a.OriginalText, << "<", "a" >>)

C9_HtmlBecomesMarkdown ==
    PipelineReturned("processAttachments") =>
        \A u \in DOMAIN urlMap :
            LET imgs  == FindAll([kind |-> "imgTag", url |-> u], input)
                links == FindAll([kind |-> "link", url |-> u], input)
            IN  /\ \A k \in 1..Len(imgs) :
                     LET tag == MatchText(input, imgs[k])
                         alt == FindFirst([kind |-> "alt"], tag)
                         altText == IF alt.ok /\ alt.g1 # << >> THEN alt.g1 ELSE << "Image" >>
                     IN  /\ Occurrences(result, MarkdownImg(altText, WrittenURL(u)))
                              >= Occurrences(input, tag)
                         /\ ~Contains(result, tag)
                /\ \A k \in 1..Len(links) :
                     LET tag == MatchText(input, links[k])
                         linkText == IF links[k].g2 # << >> THEN links[k].g2 ELSE << "Download" >>
                     IN  /\ Occurrences(result, MarkdownLink(linkText, WrittenURL(u)))
                              >= Occurrences(input, tag)
                         /\ ~Contains(result, tag)

\* C10: when a pipeline returns, an occurrence of a migrated URL as bare
\* text is still in the body (processAttachments), and the URL of an
\* attachment that was not migrated occurs wherever it occurred before the
\* rewrite (processGitLabToGitHub).
C10_RewriteOnlyInConstruct ==
    /\ PipelineReturned("processAttachments") =>
         \A u \in DOMAIN urlMap : BareOccurrences(result, u) = BareOccurrences(input, u)
    /\ PipelineReturned("processGitLabToGitHub") =>
         \A a \in Attachments :
             a.URL \notin DOMAIN urlMap =>
                 WholeOccurrences(result, a.URL) = WholeOccurrences(content, a.URL)

----------------------------------------------------------------------------
(* the references found by findAllAttachments (specification SpecPipeline) *)

\* the scan of processAttachments has run
Scanned == proc = "processAttachments" /\ apc # "scan"

\* the scan of processAttachments has just returned: the loop is about to
\* start, or nothing was found
JustScanned ==
    /\ proc = "processAttachments"
    /\ \/ apc = "download" /\ idx = 1
       \/ apc = "done" /\ attachmentURLs = << >>

\* the four patterns in the order of their passes, and the group of the URL
ScanPatterns ==
    << [kind |-> "imgTag", url |-> AnyURL], [kind |-> "mdImage"],
       [kind |-> "link", url |-> AnyURL], [kind |-> "mdLink"] >>

UrlOfMatch(k, m) == IF k \in {1, 3} THEN m.g1 ELSE m.g2

\* the matches of pattern k in s whose URL is u, left to right
MatchesFor(k, s, u) ==
    SelectSeq(FindAll(ScanPatterns[k], s), LAMBDA m : UrlOfMatch(k, m) = u)

\* the first pattern, in the order of precedence, that matches u in s
FirstPattern(s, u) ==
    CHOOSE k \in 1..4 :
        /\ MatchesFor(k, s, u) # << >>
        /\ \A j \in 1..(k - 1) : MatchesFor(j, s, u) = << >>

\* C11: findAllAttachments returns no two references with the same URL; a
\* URL matched by several patterns, or several times, is recorded once, as
\* an image or a file and with the markup of its first match by the first
\* of the patterns HTML img, Markdown image, HTML link, Markdown link that
\* matches it
C11_OneReferencePerURL ==
    JustScanned =>
        /\ \A i, j \in 1..Len(attachmentURLs) :
              attachmentURLs[i].URL = attachmentURLs[j].URL => i = j
        /\ \A i \in 1..Len(attachmentURLs) :
              LET a == attachmentURLs[i]
              IN  /\ \E k \in 1..4 : MatchesFor(k, content, a.URL) # << >>
                  /\ a.IsImage = (FirstPattern(content, a.URL) <= 2)
                  /\ a.OriginalText =
                        MatchText(content,
                            MatchesFor(FirstPattern(content, a.URL), content, a.URL)[1])

\* a URL matched by an image pattern and by a link pattern is one reference
C11_Witness ==
    /\ JustScanned
    /\ \E i \in 1..Len(attachmentURLs) :
          /\ \E k \in 1..2 : MatchesFor(k, content, attachmentURLs[i].URL) # << >>
          /\ \E k \in 3..4 : MatchesFor(k, content, attachmentURLs[i].URL) # << >>

\* the URLs of the Markdown images of s
MdImageURLs(s) ==
    {FindAll(ScanPatterns[2], s)[k].g2 : k \in 1..Len(FindAll(ScanPatterns[2], s))}

\* the only embeds of s are Markdown images with absolute http(s) URLs: no
\* <img> or <a> tag, and every [text](URL) is the tail of a ![alt](URL)
OnlyMarkdownImages(s) ==
    /\ FindAll(ScanPatterns[1], s) = << >>
    /\ FindAll(ScanPatterns[3], s) = << >>
    /\ FindAll(ScanPatterns[2], s) # << >>
    /\ \A k \in 1..Len(FindAll(ScanPatterns[4], s)) :
          LET m == FindAll(ScanPatterns[4], s)[k]
          IN  /\ m.start > 1
              /\ MatchAt(ScanPatterns[2], s, m.start - 1).ok
              /\ MatchAt(ScanPatterns[2], s, m.start - 1).end = m.end
    /\ \A u \in MdImageURLs(s) : isValidURL(u)

\* C12: for a body whose only embeds are Markdown images with absolute
\* http(s) URLs, findAllAttachments returns exactly one reference for every
\* distinct URL, each of them an image; no Markdown image is reported, as
\* well or instead, as a Markdown file link
C12_MarkdownImagesAreImages ==
    (JustScanned /\ OnlyMarkdownImages(content)) =>
        /\ URLsOf(attachmentURLs) = MdImageURLs(content)
        /\ Len(attachmentURLs) = Cardinality(MdImageURLs(content))
        /\ \A i \in 1..Len(attachmentURLs) :
              /\ attachmentURLs[i].IsImage
              /\ HasPrefix(attachmentURLs[i].OriginalText, << "!" >>)

\* two Markdown images with different URLs have been scanned
C12_Witness ==
    /\ JustScanned /\ OnlyMarkdownImages(content)
    /\ Cardinality(MdImageURLs(content)) = 2
    /\ Len(attachmentURLs) = 2

\* the extensions of fileExts that the alphabet has as atoms
ExtensionAtoms == {".zip", ".png"}

\* the URL ends with an extension of the allow-list
CarriesExtension(url) == url # << >> /\ url[Len(url)] \in ExtensionAtoms

\* the URL contains one of the hosting paths of filePatterns
HasHostingPath(url) ==
    \/ Contains(url, << "https://gitlab.com", "/uploads/" >>)
    \/ Contains(url, << "https://github.com/user-attachments/assets/" >>)

\* C13: a link (<a> or [text](URL)) is reported as a file attachment only
\* when its URL carries an extension of the allow-list or contains a known
\* hosting path; a link to an ordinary page is not an attachment, it is
\* neither downloaded nor rewritten
C13_OnlyFilesAreAttachments ==
    Scanned =>
        /\ \A i \in 1..Len(attachmentURLs) :
              ~attachmentURLs[i].IsImage =>
                  \/ CarriesExtension(attachmentURLs[i].URL)
                  \/ HasHostingPath(attachmentURLs[i].URL)
        /\ UP \notin URLsOf(attachmentURLs)
        /\ PipelineReturned("processAttachments") =>
              Occurrences(result, UP) = Occurrences(input, UP)

----------------------------------------------------------------------------
(* single calls: the download requests, detectFileExtension, the uploaders *)

\* no pipeline runs
PipeNone ==
    /\ proc = "none" /\ apc = "idle" /\ input = << >> /\ content = << >>
    /\ attachmentURLs = << >> /\ idx = 0 /\ outcomes = << >>
    /\ urlMap = EmptyMap /\ pending = {} /\ result = << >>

\* function f has been called with arguments a
CallStart(f, a) ==
    /\ fn = f /\ fpc = "called" /\ args = a
    /\ policy = << >> /\ requests = << >> /\ ret = << >>

NoHeaders == [Authorization |-> << >>, Cookie |-> << >>, PrivateToken |-> << >>]

\* an HTTP request, what came back, and whether the caller took it for a
\* failure
Request(method, url, headers, response, fails) ==
    [method |-> method, url |-> url, headers |-> headers, response |-> response,
     failed |-> fails]

\* atoms that contain "github.com"
GitHubComAtoms == {"https://github.com/user-attachments/assets/", "github.com"}

\* strings.Contains(attachment.URL, "github.com")
ContainsGitHubCom(url) == \E k \in 1..Len(url) : url[k] \in GitHubComAtoms

\* the calls of the download step of processAttachments: an attachment
\* found in a body (among them a file on a third-party host whose name
\* contains "github.com", and an asset of GitHub), and the sourceToken
\* parameter
DownloadCalls ==
    { [URL |-> u, sourceToken |-> t] :
        u \in { v \in { UA, UC, << "https://x.test/", "github.com", ".png" >>,
                        << "https://github.com/user-attachments/assets/", "a1" >> } :
                    v \in URLsOf(findAllAttachments(MdImg(<< "t" >>, v))) },
        t \in { << >>, << "ghp_source" >> } }

\* the headers of the download request of processAttachments
DownloadHeaders(url, sourceToken) ==
    IF ContainsGitHubCom(url) /\ sourceToken # << >>
    THEN [NoHeaders EXCEPT !.Authorization = << "Bearer " >> \o sourceToken]
    ELSE NoHeaders

\* processAttachments sends the download request of an attachment
DownloadAttachment ==
    /\ fn = "processAttachments" /\ fpc = "called"
    /\ \E d \in DownloadResults :
          requests' = Append(requests,
              Request("GET", args.URL, DownloadHeaders(args.URL, args.sourceToken),
                      d, d # "ok"))
    /\ fpc' = "returned"
    /\ UNCHANGED << fn, args, policy, ret, orchVars, pipeVars >>

\* the calls of the download step of processGitLabToGitHub: an attachment
\* found in a body with the instance's URL, the token and the session
GitLabDownloadCalls ==
    { [URL |-> a.URL, gitlabSession |-> s, gitlabToken |-> t] :
        a \in { findGitLabAttachments(b, GitLabBaseURL)[1] :
                    b \in { c \in GitLabSnippets :
                                findGitLabAttachments(c, GitLabBaseURL) # << >> } },
        s \in { << >>, << "gl_session" >> }, t \in { << >>, << "glpat" >> } }

\* the headers of the download request of processGitLabToGitHub
GitLabDownloadHeaders(gitlabSession, gitlabToken) ==
    IF gitlabSession # << >>
    THEN [NoHeaders EXCEPT !.Cookie = << "_gitlab_session=" >> \o gitlabSession]
    ELSE IF gitlabToken # << >>
    THEN [NoHeaders EXCEPT !.PrivateToken = gitlabToken]
    ELSE NoHeaders

\* processGitLabToGitHub sends the download request of an attachment
DownloadGitLabAttachment ==
    /\ fn = "processGitLabToGitHub" /\ fpc = "called"
    /\ \E d \in DownloadResults :
          requests' = Append(requests,
              Request("GET", args.URL,
                      GitLabDownloadHeaders(args.gitlabSession, args.gitlabToken),
                      d, d # "ok"))
    /\ fpc' = "returned"
    /\ UNCHANGED << fn, args, policy, ret, orchVars, pipeVars >>

\* data[a:b]
Slice(data, a, b) == SubSeq(data, a + 1, b)

\* strings.ToLower over bytes
ToLower(s) == [k \in 1..Len(s) |-> IF s[k] \in 65..90 THEN s[k] + 32 ELSE s[k]]

\* []byte("RIFF"), []byte("ftyp")
RIFF == << 82, 73, 70, 70 >>

Ftyp == << 102, 116, 121, 112 >>

\* the SVG probe: "<svg", or "<?xml" and "svg", in the lower-cased header
SvgHeader(header) ==
    \/ Contains(ToLower(header), << 60, 115, 118, 103 >>)
    \/ /\ Contains(ToLower(header), << 60, 63, 120, 109, 108 >>)
       /\ Contains(ToLower(header), << 115, 118, 103 >>)

\* detectFileExtension; the text literals are "GIF87a", "GIF89a", "WEBP",
\* "ftypheic", "ftypheix", "ftyphevc", "ftypavif", "%PDF-", "ftypmp4",
\* "ftypisom", "AVI ", "ftypqt"
detectFileExtension(data) ==
    IF Len(data) < 4 THEN ""
    ELSE IF Len(data) >= 3 /\ data[1] = 255 /\ data[2] = 216 /\ data[3] = 255 THEN ".jpg"
    ELSE IF Len(data) >= 8 /\ Slice(data, 0, 8) = << 137, 80, 78, 71, 13, 10, 26, 10 >>
    THEN ".png"
    ELSE IF Len(data) >= 6 /\ (\/ Slice(data, 0, 6) = << 71, 73, 70, 56, 55, 97 >>
                            \/ Slice(data, 0, 6) = << 71, 73, 70, 56, 57, 97 >>)
    THEN ".gif"
    ELSE IF Len(data) >= 12 /\ Slice(data, 0, 4) = RIFF
                            /\ Slice(data, 8, 12) = << 87, 69, 66, 80 >>
    THEN ".webp"
    ELSE IF Len(data) >= 2 /\ data[1] = 66 /\ data[2] = 77 THEN ".bmp"
    ELSE IF Len(data) >= 4 /\ data[1] = 0 /\ data[2] = 0 /\ data[3] = 1 /\ data[4] = 0
    THEN ".ico"
    ELSE IF Len(data) >= 4 /\ data[1] = 73 /\ data[2] = 73 /\ data[3] = 42 /\ data[4] = 0
    THEN ".tiff"
    ELSE IF Len(data) >= 4 /\ data[1] = 77 /\ data[2] = 77 /\ data[3] = 0 /\ data[4] = 42
    THEN ".tiff"
    ELSE IF Len(data) >= 50 /\ SvgHeader(Slice(data, 0, Min({Len(data), 200})))
    THEN ".svg"
    ELSE IF Len(data) >= 12 /\ (\/ Slice(data, 4, 8) = Ftyp \o << 104, 101, 105, 99 >>
                             \/ Slice(data, 4, 8) = Ftyp \o << 104, 101, 105, 120 >>
                             \/ Slice(data, 4, 8) = Ftyp \o << 104, 101, 118, 99 >>)
    THEN ".heic"
    ELSE IF Len(data) >= 12 /\ Slice(data, 4, 8) = Ftyp \o << 97, 118, 105, 102 >>
    THEN ".avif"
    ELSE IF Len(data) >= 5 /\ Slice(data, 0, 5) = << 37, 80, 68, 70, 45 >> THEN ".pdf"
    ELSE IF Len(data) >= 4 /\ data[1] = 80 /\ data[2] = 75
                           /\ data[3] \in {3, 5, 7} /\ data[4] \in {4, 6, 8}
    THEN ".zip"
    ELSE IF Len(data) >= 12 /\ (\/ Slice(data, 4, 8) = Ftyp
                             \/ Slice(data, 4, 8) = Ftyp \o << 109, 112, 52 >>
                             \/ Slice(data, 4, 8) = Ftyp \o << 105, 115, 111, 109 >>)
    THEN ".mp4"
    ELSE IF Len(data) >= 12 /\ Slice(data, 0, 4) = RIFF
                            /\ Slice(data, 8, 12) = << 65, 86, 73, 32 >>
    THEN ".avi"
    ELSE IF Len(data) >= 8 /\ Slice(data, 4, 8) = Ftyp \o << 113, 116 >> THEN ".mov"
    ELSE IF Len(data) >= 4 /\ data[1] = 26 /\ data[2] = 69 /\ data[3] = 223 /\ data[4] = 163
    THEN ".webm"
    ELSE ""

\* s followed by zero bytes up to length n
Pad(s, n) == s \o [k \in 1..(n - Len(s)) |-> 0]

\* an ISO base media file: the size of the ftyp box, "ftyp", the major brand
Box(brand) == << 0, 0, 0, 24 >> \o Ftyp \o brand

\* the first bytes of files of each kind: JPEG, PNG, GIF87a, GIF89a, WebP,
\* BMP, ICO, TIFF (II, MM), "<svg", "<SVG", "<?xml <svg", "<?xml", brands
\* heic, heix, avif, isom, mp42, "qt  ", %PDF-, ZIP (three kinds), AVI,
\* WebM, and two that are none of these
Headers ==
    { << 255, 216, 255 >>, << 137, 80, 78, 71, 13, 10, 26, 10 >>,
      << 71, 73, 70, 56, 55, 97 >>, << 71, 73, 70, 56, 57, 97 >>,
      RIFF \o << 36, 0, 0, 0, 87, 69, 66, 80 >>,
      << 66, 77 >>, << 0, 0, 1, 0 >>, << 73, 73, 42, 0 >>, << 77, 77, 0, 42 >>,
      << 60, 115, 118, 103 >>, << 60, 83, 86, 71 >>,
      << 60, 63, 120, 109, 108, 32, 60, 115, 118, 103 >>, << 60, 63, 120, 109, 108 >>,
      Box(<< 104, 101, 105, 99 >>), Box(<< 104, 101, 105, 120 >>),
      Box(<< 97, 118, 105, 102 >>), Box(<< 105, 115, 111, 109 >>),
      Box(<< 109, 112, 52, 50 >>), Box(<< 113, 116, 32, 32 >>),
      << 37, 80, 68, 70, 45 >>,
      << 80, 75, 3, 4 >>, << 80, 75, 5, 6 >>, << 80, 75, 7, 8 >>,
      RIFF \o << 36, 0, 0, 0, 65, 86, 73, 32 >>,
      << 26, 69, 223, 163 >>,
      << 1, 2, 3, 4 >>, << 116, 101, 120, 116 >> }

\* the byte slices detectFileExtension is called with: empty, a header
\* alone, a header followed by more bytes
DetectCalls == { [data |-> Pad(h, n)] : h \in Headers \cup { << >> }, n \in {0, 4, 12, 50} }

\* a call of detectFileExtension
DetectFileExtension ==
    /\ fn = "detectFileExtension" /\ fpc = "called"
    /\ ret' = detectFileExtension(args.data)
    /\ fpc' = "returned"
    /\ UNCHANGED << fn, args, policy, requests, orchVars, pipeVars >>

\* the responses of the upload endpoint: a status and a body (the url
\* field of an upload, an error document, or a text that repeats the hint)
UploadCalls ==
    { [status |-> s, respBody |-> b] :
        s \in {200, 201, 204, 302, 400, 401, 403, 404, 413, 422, 500, 502},
        b \in { UploadResponseURL(1), << "https://cdn.test/", "f" >>,
                << "https://cdn.test", "/uploads/", "s1", "/uploads/", "f" >>,
                MessageJSON, << TokenScopeHint >> } }

\* a call of uploadFileToGitLab whose request got a response
UploadFileToGitLab ==
    /\ fn = "uploadFileToGitLab" /\ fpc = "called"
    /\ requests' = Append(requests,
          Request("POST", GitLabBaseURL \o << "/api/v4/projects/" >> \o ProjectID
                            \o << "/uploads" >>,
                  [NoHeaders EXCEPT !.PrivateToken = << "glpat" >>],
                  args, args.status # 201 /\ args.status # 200))
    /\ ret' = uploadFileToGitLab(args.status, args.respBody, GitLabBaseURL)
    /\ fpc' = "returned"
    /\ UNCHANGED << fn, args, policy, orchVars, pipeVars >>

\* the fields of GitHubUploadPolicy the uploader reads
Policy(href, uploadURL, id) == [Href |-> href, UploadURL |-> uploadURL, AssetID |-> id]

\* what the policy endpoint can answer: no answer (client.Do or io.ReadAll
\* fails), or a status with a body that is not JSON or is a policy, with or
\* without asset href, upload URL and asset id
PolicyResponses ==
    { [error |-> e, status |-> 0, parses |-> FALSE, body |-> Policy(<< >>, << >>, 0)] :
        e \in {"transport", "read"} }
    \cup { [error |-> "none", status |-> st, parses |-> FALSE,
            body |-> Policy(<< >>, << >>, 0)] : st \in {200, 201, 422, 42, 403, 500} }
    \cup { [error |-> "none", status |-> st, parses |-> TRUE, body |-> Policy(h, u, id)] :
            st \in {200, 201, 422, 42, 403, 500}, h \in { << >>, AssetHref(1) },
            u \in { << >>, << "https://uploads.test/" >> }, id \in {0, 5} }

\* getGitHubUploadPolicy that does not look at the status
getGitHubUploadPolicyAnyStatus(resp) == resp.error # "none" \/ ~resp.parses

\* getGitHubUploadPolicy fails on this response
getGitHubUploadPolicy(resp) ==
    \/ resp.error # "none"
    \/ resp.status = 422 \/ resp.status = 42
    \/ resp.status # 200 /\ resp.status # 201
    \/ ~resp.parses

\* what the upload URL can answer: no answer, 204, a redirect with or
\* without Location, or another status, the body being JSON with an href
\* or not
S3Responses ==
    { [error |-> e, status |-> st, location |-> l, href |-> h] :
        e \in {"transport", "none"}, st \in {204, 303, 403},
        l \in { << >>, << "https://uploads.test/", "done" >> },
        h \in { << >>, AssetHref(2) } }

\* uploadToGitHubS3 fails on this response
uploadToGitHubS3(p, resp) ==
    IF resp.error # "none" THEN TRUE
    ELSE IF resp.status = 204 THEN p.Href = << >>
    ELSE IF resp.status \in {303, 302} /\ (resp.location # << >> \/ p.Href # << >>)
    THEN FALSE
    ELSE resp.href = << >>

\* the byte POST is not sent for every policy that has an asset href
SendsBytesWithoutHref(p) == p.UploadURL # << >> /\ p.Href = << >>

\* uploadToGitHubS3 sends the byte POST: the policy has an upload URL
SendsBytes(p) == p.UploadURL # << >>

\* the calls of UploadToGitHubWithRepoAndReferer
GitHubUploadCalls ==
    { [session |-> s, token |-> << "ghp_target" >>] : s \in { << >>, << "user_session" >> } }

GitHubHeaders(session, token) ==
    IF session # << >>
    THEN [NoHeaders EXCEPT !.Cookie = << "user_session=" >> \o session
                                          \o << "; logged_in=yes" >>]
    ELSE IF token # << >>
    THEN [NoHeaders EXCEPT !.Authorization = << "token " >> \o token]
    ELSE NoHeaders

\* step 1: the policy request; on a failure the uploader returns
GetGitHubUploadPolicy ==
    /\ fn = "UploadToGitHubWithRepoAndReferer" /\ fpc = "called"
    /\ \E resp \in PolicyResponses :
          /\ requests' = Append(requests,
                Request("POST", << "https://github.com/upload/policies/assets" >>,
                        GitHubHeaders(args.session, args.token), resp,
                        getGitHubUploadPolicy(resp)))
          /\ IF getGitHubUploadPolicy(resp)
             THEN /\ ret' = UploadToGitHubWithRepoAndReferer(FALSE, << >>, FALSE)
                  /\ fpc' = "returned"
                  /\ UNCHANGED policy
             ELSE /\ policy' = resp.body
                  /\ fpc' = "s3"
                  /\ UNCHANGED ret
    /\ UNCHANGED << fn, args, orchVars, pipeVars >>

\* step 2: the byte POST to the upload URL of the policy, whether or not
\* the policy has an asset href; a failure ends the upload when it has none
UploadToGitHubS3 ==
    /\ fn = "UploadToGitHubWithRepoAndReferer" /\ fpc = "s3"
    /\ IF SendsBytes(policy)
       THEN \E resp \in S3Responses :
               /\ requests' = Append(requests,
                     Request("POST", policy.UploadURL, NoHeaders, resp,
                             uploadToGitHubS3(policy, resp)))
               /\ IF uploadToGitHubS3(policy, resp) /\ policy.Href = << >>
                  THEN /\ ret' = UploadToGitHubWithRepoAndReferer(TRUE, policy.Href, FALSE)
                       /\ fpc' = "returned"
                  ELSE /\ fpc' = "confirm"
                       /\ UNCHANGED ret
       ELSE /\ UNCHANGED requests
            /\ IF policy.Href = << >>
               THEN /\ ret' = UploadToGitHubWithRepoAndReferer(TRUE, policy.Href, FALSE)
                    /\ fpc' = "returned"
               ELSE /\ fpc' = "confirm"
                    /\ UNCHANGED ret
    /\ UNCHANGED << fn, args, policy, orchVars, pipeVars >>

\* the headers of the confirm call
ConfirmHeaders(session) ==
    [NoHeaders EXCEPT !.Cookie = << "user_session=" >> \o session
                                    \o << "; __Host-user_session_same_site=" >> \o session
                                    \o << "; logged_in=yes" >>]

\* the body of the response to the confirm call: whether it is JSON, whether
\* the object has a "message" string, and that string
ConfirmBody(parses, message) ==
    [parses |-> parses, hasMessage |-> message # << >>, message |-> message]

\* what the confirm call can be answered: no answer, or a status with a body
ConfirmResponses ==
    { [error |-> "transport", status |-> 0, body |-> ConfirmBody(FALSE, << >>)] }
    \cup { [error |-> "none", status |-> st, body |-> b] :
            st \in {200, 204, 422, 404, 500},
            b \in { ConfirmBody(FALSE, << >>), ConfirmBody(TRUE, << >>),
                    ConfirmBody(TRUE, << "Invalid Asset" >>),
                    ConfirmBody(TRUE, << "Error: ", "Invalid Asset", " 5" >>),
                    ConfirmBody(TRUE, << "Validation Failed" >>) } }

\* confirmGitHubAssetUpload fails on this response
confirmGitHubAssetUpload(resp) ==
    IF resp.error # "none" THEN TRUE
    ELSE IF resp.status = 200 \/ resp.status = 204 THEN FALSE
    ELSE IF resp.body.parses /\ resp.body.hasMessage
    THEN ~Contains(resp.body.message, << "Invalid Asset" >>)
    ELSE resp.status # 422

\* step 3: the confirm call when the policy has an asset id (without a
\* session confirmGitHubAssetUpload gives up before sending it), its
\* failure being logged only; then the asset href of the policy is returned
ConfirmGitHubAssetUpload ==
    /\ fn = "UploadToGitHubWithRepoAndReferer" /\ fpc = "confirm"
    /\ IF policy.AssetID > 0 /\ args.session # << >>
       THEN \E resp \in ConfirmResponses :
               requests' = Append(requests,
                   Request("PUT", << "https://github.com/upload/repository-files/",
                                     ToString(policy.AssetID) >>,
                           ConfirmHeaders(args.session), resp,
                           confirmGitHubAssetUpload(resp)))
       ELSE UNCHANGED requests
    /\ ret' = UploadToGitHubWithRepoAndReferer(TRUE, policy.Href, TRUE)
    /\ fpc' = "returned"
    /\ UNCHANGED << fn, args, policy, orchVars, pipeVars >>

----------------------------------------------------------------------------
(* specification of the single calls *)

InitCalls ==
    /\ OrchIdle /\ githubSession = << >> /\ PipeNone
    /\ \/ \E a \in DownloadCalls : CallStart("processAttachments", a)
       \/ \E a \in GitLabDownloadCalls : CallStart("processGitLabToGitHub", a)
       \/ \E a \in DetectCalls : CallStart("detectFileExtension", a)
       \/ \E a \in UploadCalls : CallStart("uploadFileToGitLab", a)
       \/ \E a \in GitHubUploadCalls : CallStart("UploadToGitHubWithRepoAndReferer", a)

NextCalls ==
    \/ DownloadAttachment
    \/ DownloadGitLabAttachment
    \/ DetectFileExtension
    \/ UploadFileToGitLab
    \/ GetGitHubUploadPolicy
    \/ UploadToGitHubS3
    \/ ConfirmGitHubAssetUpload

SpecCalls == InitCalls /\ [][NextCalls]_vars

----------------------------------------------------------------------------
(* credentials of the download requests (specification SpecCalls) *)

\* scheme-and-host atoms of the source platform
GitHubHosts == {"https://github.com/user-attachments/assets/"}

GitLabHosts == {"https://gitlab.com"}

\* the request carries a credential of the source platform
CarriesCredential(r) == r.headers # NoHeaders

\* C14: a download request carries the source platform's credential (GitHub
\* bearer token, GitLab private token or session cookie) only when the host
\* of its URL is the source platform's and a credential is available; no
\* request to a third-party host carries it
C14_CredentialOnlyToSourceHost ==
    \A k \in 1..Len(requests) :
        /\ (fn = "processAttachments" /\ CarriesCredential(requests[k])) =>
              /\ requests[k].url[1] \in GitHubHosts
              /\ args.sourceToken # << >>
        /\ (fn = "processGitLabToGitHub" /\ CarriesCredential(requests[k])) =>
              /\ requests[k].url[1] \in GitLabHosts
              /\ args.gitlabSession # << >> \/ args.gitlabToken # << >>

----------------------------------------------------------------------------
(* detectFileExtension (specification SpecCalls) *)

Detected == fn = "detectFileExtension" /\ fpc = "returned"

\* C15: detectFileExtension gives PNG for every byte sequence whose first 8
\* bytes are 89 50 4E 47 0D 0A 1A 0A, JPEG for every byte sequence whose
\* first 3 bytes are FF D8 FF, whatever its length, and the empty string
\* for the empty byte slice
C15_PngJpegEmpty ==
    Detected =>
        /\ HasPrefix(args.data, << 137, 80, 78, 71, 13, 10, 26, 10 >>) => ret = ".png"
        /\ HasPrefix(args.data, << 255, 216, 255 >>) => ret = ".jpg"
        /\ args.data = << >> => ret = ""

\* the documented formats and their extensions
Extension ==
    [JPEG |-> ".jpg", PNG |-> ".png", GIF |-> ".gif", WebP |-> ".webp", BMP |-> ".bmp",
     ICO |-> ".ico", TIFF |-> ".tiff", SVG |-> ".svg", HEIC |-> ".heic", AVIF |-> ".avif",
     PDF |-> ".pdf", ZIP |-> ".zip", MP4 |-> ".mp4", AVI |-> ".avi", MOV |-> ".mov",
     WebM |-> ".webm"]

\* data is an ISO base media file whose major brand is one of brands
HasBrand(data, brands) ==
    Len(data) >= 12 /\ SubSeq(data, 5, 8) = Ftyp /\ SubSeq(data, 9, 12) \in brands

\* data is a RIFF file of the given form type
HasRiffType(data, type) ==
    Len(data) >= 12 /\ HasPrefix(data, RIFF) /\ SubSeq(data, 9, 12) = type

\* data starts with the signature of format f
Signature(f, data) ==
    CASE f = "JPEG" -> HasPrefix(data, << 255, 216, 255 >>)
      [] f = "PNG"  -> HasPrefix(data, << 137, 80, 78, 71, 13, 10, 26, 10 >>)
      [] f = "GIF"  -> \/ HasPrefix(data, << 71, 73, 70, 56, 55, 97 >>)
                       \/ HasPrefix(data, << 71, 73, 70, 56, 57, 97 >>)
      [] f = "WebP" -> HasRiffType(data, << 87, 69, 66, 80 >>)
      [] f = "BMP"  -> HasPrefix(data, << 66, 77 >>)
      [] f = "ICO"  -> HasPrefix(data, << 0, 0, 1, 0 >>)
      [] f = "TIFF" -> \/ HasPrefix(data, << 73, 73, 42, 0 >>)
                       \/ HasPrefix(data, << 77, 77, 0, 42 >>)
      [] f = "SVG"  -> \/ HasPrefix(ToLower(data), << 60, 115, 118, 103 >>)
                       \/ /\ HasPrefix(data, << 60, 63, 120, 109, 108 >>)
                          /\ Contains(ToLower(data), << 60, 115, 118, 103 >>)
      [] f = "HEIC" -> HasBrand(data, { << 104, 101, 105, 99 >>, << 104, 101, 105, 120 >> })
      [] f = "AVIF" -> HasBrand(data, { << 97, 118, 105, 102 >> })
      [] f = "PDF"  -> HasPrefix(data, << 37, 80, 68, 70, 45 >>)
      [] f = "ZIP"  -> \/ HasPrefix(data, << 80, 75, 3, 4 >>)
                       \/ HasPrefix(data, << 80, 75, 5, 6 >>)
                       \/ HasPrefix(data, << 80, 75, 7, 8 >>)
      [] f = "MP4"  -> HasBrand(data, { << 105, 115, 111, 109 >>, << 109, 112, 52, 50 >> })
      [] f = "AVI"  -> HasRiffType(data, << 65, 86, 73, 32 >>)
      [] f = "MOV"  -> HasBrand(data, { << 113, 116, 32, 32 >> })
      [] f = "WebM" -> HasPrefix(data, << 26, 69, 223, 163 >>)

\* C16: an input that starts with the signature of a documented format is
\* given that format's own extension (brand heic gives .heic, avif .avif,
\* qt .mov, not .mp4), and an input that matches no signature is given the
\* empty string
C16_EachFormatItsExtension ==
    Detected =>
        /\ \A f \in DOMAIN Extension : Signature(f, args.data) => ret = Extension[f]
        /\ (\A f \in DOMAIN Extension : ~Signature(f, args.data)) => ret = ""

----------------------------------------------------------------------------
(* the errors of uploadFileToGitLab (specification SpecCalls) *)

Uploaded == fn = "uploadFileToGitLab" /\ fpc = "returned"

\* C17: uploadFileToGitLab returns an error for every response status other
\* than 200 and 201; for status 403 the text of the error holds the hint
\* about the token's scope and access, and differs from the text of the
\* error for every other failing status, whatever the bodies
C17_ForbiddenHasItsOwnError ==
    Uploaded =>
        /\ args.status \notin {200, 201} => (ret.err /\ ret.url = << >> /\ ret.msg # << >>)
        /\ args.status = 403 =>
              /\ Contains(ret.msg, << "403", TokenScopeHint >>)
              /\ \A c \in UploadCalls :
                    c.status \notin {200, 201, 403} =>
                        /\ uploadFileToGitLab(c.status, c.respBody, GitLabBaseURL).err
                        /\ uploadFileToGitLab(c.status, c.respBody, GitLabBaseURL).msg
                              # ret.msg
                        /\ ~Contains(
                              uploadFileToGitLab(c.status, c.respBody, GitLabBaseURL).msg,
                              << "403", TokenScopeHint >>)

\* the upload was answered with 403, the body repeating nothing of the hint
C17_Witness ==
    /\ Uploaded /\ args.status = 403 /\ ret.err
    /\ ~Contains(args.respBody, << TokenScopeHint >>)

----------------------------------------------------------------------------
(* the GitHub upload protocol (specification SpecCalls) *)

GitHubReturned == fn = "UploadToGitHubWithRepoAndReferer" /\ fpc = "returned"

\* the policy request succeeded
PolicyReceived == requests # << >> /\ ~requests[1].failed

\* positions in requests of the byte POSTs and of the confirm calls
BytePosts == {k \in 2..Len(requests) : requests[k].method = "POST"}

Confirms == {k \in 2..Len(requests) : requests[k].method = "PUT"}

\* C18 (as stated): when the policy response has an asset href the uploader
\* sends neither the byte POST nor the confirm call and returns that href;
\* the byte POST is sent only when the policy response has no asset href
C18_HrefSkipsUpload ==
    (GitHubReturned /\ PolicyReceived) =>
        /\ policy.Href # << >> =>
              /\ BytePosts = {} /\ Confirms = {}
              /\ ret = [err |-> FALSE, url |-> policy.Href]
        /\ BytePosts # {} => policy.Href = << >>

\* C18 (amended): after the policy request the uploader sends the byte POST
\* to the upload URL of the policy exactly when the policy has one, whether
\* or not it has an asset href; it returns an error at once when the POST
\* failed or was not sent and the policy has no href, and otherwise sends
\* the confirm call exactly when the asset id is positive and there is a
\* session; it returns the asset href of the policy when there is one, and
\* an error when not
C18_UploadsWhateverHref ==
    (GitHubReturned /\ PolicyReceived) =>
        /\ BytePosts = IF policy.UploadURL # << >> THEN {2} ELSE {}
        /\ \A k \in BytePosts : requests[k].url = policy.UploadURL
        /\ Confirms =
              IF /\ policy.AssetID > 0 /\ args.session # << >>
                 /\ ~(policy.Href = << >> /\ \A k \in BytePosts : requests[k].failed)
              THEN {Len(requests)} ELSE {}
        /\ policy.Href # << >> => ret = [err |-> FALSE, url |-> policy.Href]
        /\ policy.Href = << >> => ret = [err |-> TRUE, url |-> << >>]

\* the policy had an asset href and an upload URL: the bytes were posted,
\* the upload was confirmed and the href returned
C18_Witness ==
    /\ GitHubReturned /\ PolicyReceived
    /\ policy.Href # << >> /\ policy.UploadURL # << >>
    /\ BytePosts = {2} /\ ~requests[2].failed
    /\ Confirms = {3}
    /\ ret.url = policy.Href

\* the policy request failed, as the claim lists the failures
PolicyFailed(resp) ==
    \/ resp.error # "none"
    \/ resp.status = 422
    \/ resp.status \notin {200, 201}
    \/ ~resp.parses

\* C19: when the policy request fails (no answer, status 422, a status
\* other than 200 and 201, a body that cannot be parsed) the uploader
\* returns an error and an empty URL and sends neither the byte POST nor
\* the confirm call; in every outcome it returns either a URL and no error
\* or an error and an empty URL
C19_FailsCleanly ==
    GitHubReturned =>
        /\ PolicyFailed(requests[1].response) =>
              /\ ret = [err |-> TRUE, url |-> << >>]
              /\ Len(requests) = 1
        /\ \/ ret.url # << >> /\ ~ret.err
           \/ ret.url = << >> /\ ret.err

\* the policy endpoint answered 422 with a body that parses, to a call
\* without session
C19_Witness ==
    /\ GitHubReturned
    /\ args.session = << >>
    /\ requests[1].response.status = 422 /\ requests[1].response.parses
    /\ requests[1].response.body.UploadURL # << >>
    /\ ret.err

----------------------------------------------------------------------------
(* the response to POST /api/migrate (specification Spec) *)

\* the handler has written its response, or the recovery middleware has
Answered == pc \in {"rejected", "done", "panicked"}

\* the response: c.JSON(400, ...) of the default case, c.JSON(200, results),
\* or c.JSON(500, ...) of the recovery middleware after a panic
Response ==
    CASE pc = "rejected" ->
            [status |-> 400, body |-> [error |-> "Invalid migration direction"]]
      [] pc = "done" ->
            [status |-> 200, body |-> [success |-> success, failed |-> failed]]
      [] pc = "panicked" ->
            [status |-> 500, body |-> [error |-> "Internal server error"]]

\* C20: a request whose direction is neither "github-to-gitlab" nor
\* "gitlab-to-github" is answered with 400 and makes no call to the source
\* or the destination; a request with a valid direction is answered with
\* 200 and the final ledger, whose two lists success and failed are both
\* present, empty or not
C20_DirectionDecidesTheResponse ==
    /\ direction \notin {"github-to-gitlab", "gitlab-to-github"} =>
          /\ calls = << >> /\ destIssues = << >> /\ proc = "none"
          /\ Answered => Response.status = 400
    /\ (direction \in {"github-to-gitlab", "gitlab-to-github"} /\ Answered) =>
          /\ Response.status = 200
          /\ DOMAIN Response.body = {"success", "failed"}
          /\ Response.body.success = success /\ Response.body.failed = failed
          /\ Len(success) + Len(failed) = Len(issueIDs)

----------------------------------------------------------------------------
(* the order of the calls of a migration request (specification Spec) *)

\* the original IDs of a ledger, in order
OriginalIDs(ledger) == [j \in 1..Len(ledger) |-> ledger[j].OriginalID]

\* s can be obtained from t by deleting elements
RECURSIVE IsSubsequence(_, _)
IsSubsequence(s, t) ==
    IF s = << >> THEN TRUE
    ELSE IF t = << >> THEN FALSE
    ELSE IF Head(s) = Head(t) THEN IsSubsequence(Tail(s), Tail(t))
    ELSE IsSubsequence(s, Tail(t))

\* C21: the issues are processed one at a time in the order of issue_ids (each
\* call is made and returns within one step, and no call for a position
\* follows a call for a later one); the comments of an issue are posted one
\* at a time in the order they were listed (while comment number cpos is
\* being processed exactly the cpos - 1 comments before it have been posted
\* or tried); and the IDs of the success list and of the failed list are
\* each a subsequence of the requested IDs.
C21_OneAtATimeInOrder ==
    /\ \A j \in 1..(Len(calls) - 1) : calls[j].pos <= calls[j + 1].pos
    /\ calls # << >> => calls[Len(calls)].pos <= pos
    /\ pc = "comment" => Cardinality(CallsWhere("CreateNote", pos)) = cpos - 1
    /\ IsSubsequence(OriginalIDs(success), issueIDs)
    /\ IsSubsequence(OriginalIDs(failed), issueIDs)

\* a run over two different IDs that returned with both migrated, two
\* comments posted for the first one
C21_Witness ==
    /\ Returned
    /\ Len(issueIDs) = 2 /\ issueIDs[1] # issueIDs[2]
    /\ OriginalIDs(success) = issueIDs
    /\ Cardinality(CallsWhere("CreateNote", 1)) = 2
    /\ Cardinality(CallsWhere("CreateNote", 2)) = 1

\* the last call made
LastCall == calls[Len(calls)]

\* the pipeline of the direction has returned the processed body
PipelineDone == proc = Pipeline(direction) /\ apc = "done"

\* the step that makes call c comes at its place in the iteration for the
\* issue at position pos
InItsPlace(c) ==
    /\ c.pos = pos
    /\ CASE c.op = "Get" ->
              pc = "loop" /\ \A j \in 1..Len(calls) : calls[j].pos < pos
         [] c.op = "Create" ->
              /\ pc = "body" /\ PipelineDone
              /\ LastCall.op = "Get" /\ LastCall.pos = pos /\ LastCall.ok
              /\ c.ok => /\ c.n = Len(destIssues) + 1
                         /\ destIssues' = Append(destIssues,
                                [orig |-> issueIDs[pos],
                                 body |-> MigrationHeader(direction) \o result,
                                 notes |-> << >>])
         [] c.op = "ListComments" ->
              /\ pc = "comments"
              /\ LastCall.op = "Create" /\ LastCall.pos = pos /\ LastCall.ok
              /\ LastCall.n = newIssue
         [] c.op = "CreateNote" ->
              /\ pc = "comment" /\ PipelineDone
              /\ LastCall.op \in {"ListComments", "CreateNote"} /\ LastCall.pos = pos
              /\ c.n = newIssue /\ newIssue \in 1..Len(destIssues)
              /\ \E j \in CallsWhere("Create", pos) : calls[j].ok /\ calls[j].n = c.n
              /\ destIssues[c.n].orig = issueIDs[pos]
              /\ c.ok => destIssues' = [destIssues EXCEPT
                                          ![c.n].notes = Append(@, CommentHeader \o result)]
              /\ ~c.ok => destIssues' = destIssues

\* C22: for each issue the steps come strictly in the order fetch, pipeline
\* on the body, creation of the destination issue, then for each comment
\* its pipeline and its post, then the success entry: no comment is posted
\* before its destination issue exists, every comment of an issue is posted
\* to the destination issue created for that issue, and the success entry,
\* appended once every listed comment has been posted or tried, carries the
\* identifier and the URL of that destination issue.
C22_StepsInOrder ==
    [][ /\ calls' # calls =>
            /\ Len(calls') = Len(calls) + 1 /\ SubSeq(calls', 1, Len(calls)) = calls
            /\ InItsPlace(calls'[Len(calls')])
        /\ success' # success =>
            /\ pc \in {"comments", "comment"}
            /\ Cardinality({j \in 1..Len(calls') :
                    calls'[j].op = "CreateNote" /\ calls'[j].pos = pos}) = Len(comments')
            /\ \E j \in CallsWhere("Create", pos) :
                 /\ calls[j].ok
                 /\ destIssues[calls[j].n].orig = issueIDs[pos]
                 /\ success' = Append(success,
                        MigrationStatus(issueIDs[pos], calls[j].n, WebURL(calls[j].n), ""))
      ]_vars

\* an issue whose two comments were posted to the destination issue created
\* for it, the second issue of the run, and whose success entry is appended
C22_Witness ==
    /\ Len(success) = 2 /\ Len(destIssues) = 2
    /\ issueIDs[1] # issueIDs[2]
    /\ Len(destIssues[2].notes) = 2 /\ destIssues[2].orig = issueIDs[2]
    /\ success[2].NewID = 2

----------------------------------------------------------------------------
(* the two pipelines compared (specification SpecPipeline) *)

\* the scan of processGitLabToGitHub has just returned
JustScannedGitLab ==
    /\ proc = "processGitLabToGitHub"
    /\ \/ apc = "download" /\ idx = 1
       \/ apc = "done" /\ attachmentURLs = << >>

\* what processAttachments' scanner and rewriter give for the normalised body
\* of processGitLabToGitHub and its one migrated reference
SameAsProcessAttachments ==
    LET found == findAllAttachments(content)
    IN  /\ Len(found) = 1
        /\ result = RewriteOne(content, found[1].URL,
                               [found[1] EXCEPT !.NewURL = urlMap[found[1].URL].NewURL])

\* C23: both directions apply the same pipeline: on the body it scans,
\* processGitLabToGitHub finds the references findAllAttachments finds (the
\* four markup patterns), and a body with one reference, migrated, is
\* rewritten as processAttachments' loop rewrites it (HTML converted to
\* Markdown, Markdown kept).
C23_SamePipelineBothWays ==
    /\ JustScannedGitLab => URLsOf(attachmentURLs) = URLsOf(findAllAttachments(content))
    /\ ( /\ PipelineReturned("processGitLabToGitHub")
         /\ Len(attachmentURLs) = 1 /\ AllMigrated )
       => SameAsProcessAttachments

----------------------------------------------------------------------------
(* the URL written for an uploaded file (specification SpecCalls) *)

\* the suffix of url that begins at its first "/uploads/"
FromUploads(url) == SubSeq(url, Index(url, << "/uploads/" >>), Len(url))

\* C24: when the destination URL uploadFileToGitLab returned contains
\* "/uploads/", the URL written into the body is the suffix of the
\* destination URL that begins at "/uploads/", whole; without such a segment
\* the destination URL is written unchanged.
C24_RelativeFormIsTheSuffix ==
    (Uploaded /\ ~ret.err) =>
        RelativeURL(ret.url) = IF Contains(ret.url, << "/uploads/" >>)
                               THEN FromUploads(ret.url)
                               ELSE ret.url

\* C30: uploadFileToGitLab never returns a nil error with an empty URL
\* (for instance for a 200/201 response whose body is valid JSON without a
\* "url" field), so that every entry put into the URL map has a non-empty
\* destination URL and no body is rewritten to an empty link target.
C30_NoEmptyDestination ==
    (Uploaded /\ ~ret.err) => ret.url # << >> /\ RelativeURL(ret.url) # << >>

----------------------------------------------------------------------------
(* the answer to the confirm call (specification SpecCalls) *)

\* the responses for which the claim has confirmGitHubAssetUpload return nil
AcceptedAsConfirmed(resp) ==
    \/ resp.status = 200 \/ resp.status = 204
    \/ resp.status = 422
    \/ resp.body.hasMessage /\ Contains(resp.body.message, << "Invalid Asset" >>)

\* C27: confirmGitHubAssetUpload returns nil for a response with status 200
\* or 204, for every response with status 422 whatever its body, and for
\* every error message containing "Invalid Asset"; it returns an error for
\* every other response.
C27_ConfirmAnswers ==
    fn = "UploadToGitHubWithRepoAndReferer" =>
        \A k \in Confirms :
            requests[k].response.error = "none" =>
                (requests[k].failed <=> ~AcceptedAsConfirmed(requests[k].response))

----------------------------------------------------------------------------
(* what the uploader returns when the bytes were not accepted              *)
(* (specification SpecCalls)                                                *)

\* uploadToGitHubS3 returned an error: the byte POST failed, or could not be
\* sent for want of an upload URL
BytePostFailed ==
    /\ PolicyReceived
    /\ \A k \in BytePosts : requests[k].failed

\* C28: a mapping is created only if the bytes were accepted:
\* UploadToGitHubWithRepoAndReferer never returns a URL with a nil error
\* when the byte POST step (uploadToGitHubS3) failed.
C28_NoURLWithoutBytes ==
    (GitHubReturned /\ BytePostFailed) => (ret.err /\ ret.url = << >>)

----------------------------------------------------------------------------
(* the order of the loop over urlMap (specification SpecPipeline) *)

\* the orders in which a loop can go over the keys of urlMap
Orders ==
    {o \in [1..Cardinality(DOMAIN urlMap) -> DOMAIN urlMap] :
        \A i, j \in DOMAIN o : i # j => o[i] # o[j]}

\* the rewrite loop of pipeline p over the keys in the given order
RECURSIVE RewriteInOrder(_, _, _)
RewriteInOrder(p, res, order) ==
    IF order = << >> THEN res
    ELSE RewriteInOrder(p,
            IF p = "processAttachments"
            THEN RewriteOne(res, Head(order), urlMap[Head(order)])
            ELSE ReplaceAll(res, Head(order), urlMap[Head(order)].NewURL),
            Tail(order))

\* C29: the rewritten body is a function of the body and of the URL map
\* alone: whatever the order in which the entries of the map are applied,
\* the pipeline returns the same body, also when a source URL is a prefix
\* or a part of another source URL or of a destination URL.
C29_OrderIndependent ==
    (apc = "done" /\ DOMAIN urlMap # {}) =>
        \A o \in Orders : result = RewriteInOrder(proc, content, o)

----------------------------------------------------------------------------
(* specification of a migration request submitted twice: the destination    *)
(* keeps the issues of the first run, the handler keeps nothing             *)

\* the response of the first run, kept in the history of the calls: n is the
\* number of its success entries
FirstResponse == Call("Response", 0, TRUE, "", TRUE, Len(success))

Resubmitted == \E j \in 1..Len(calls) : calls[j].op = "Response"

\* the same request is posted again once the first one was answered:
\* MigrateWithFiles and the migration function start from empty lists
MigrateAgain ==
    /\ pc = "done" /\ ~Resubmitted
    /\ calls' = Append(calls, FirstResponse)
    /\ pc' = "loop" /\ pos' = 1
    /\ issue' = NoIssue /\ newIssue' = 0 /\ comments' = << >> /\ cpos' = 0
    /\ success' = << >> /\ failed' = << >>
    /\ UNCHANGED << unitVars, pipeVars, direction, issueIDs, githubSession, glClientOK,
                    destIssues, faults >>

\* the two runs of a request whose every external call succeeds: the budget
\* of failing calls is used up from the start
InitTwice ==
    /\ direction \in Directions
    /\ \E pool \in IDPools, n \in 0..MaxIssues :
          n <= Len(pool) /\ issueIDs = SubSeq(pool, 1, n)
    /\ githubSession = << "user_session" >>
    /\ glClientOK \in BOOLEAN
    /\ pc = "idle" /\ pos = 0 /\ issue = NoIssue /\ newIssue = 0
    /\ comments = << >> /\ cpos = 0 /\ success = << >> /\ failed = << >>
    /\ calls = << >> /\ destIssues = << >> /\ faults = MaxFaults
    /\ PipeNone
    /\ UnitIdle

NextTwice ==
    \/ MigrateWithFiles
    \/ FetchIssue
    \/ ScanAttachments
    \/ ProcessAttachment
    \/ RewriteEntry
    \/ ScanGitLab
    \/ ProcessGitLabAttachment
    \/ RewriteGitLabEntry
    \/ CreateIssue
    \/ ListComments
    \/ PostComment
    \/ Respond
    \/ MigrateAgain

SpecTwice == InitTwice /\ [][NextTwice]_vars

\* the second run has returned, no external call having failed in either run
BothRunsClean == Returned /\ Resubmitted /\ faults = MaxFaults

\* the ledger the first run returned had n success entries
FirstLedger(n) == \A j \in 1..Len(calls) : calls[j].op = "Response" => calls[j].n = n

\* C25: the program keeps no memory of earlier runs: when the same request
\* is submitted twice and every step succeeds both times, the second run
\* fetches and creates every issue again, so that the destination holds two
\* issues per requested position (2N for N IDs), the second set equal to the
\* first, and each run returns a ledger of N success entries and no failed
\* entry.
C25_SecondRunMigratesAgain ==
    BothRunsClean =>
        /\ Len(destIssues) = 2 * Len(issueIDs)
        /\ FirstLedger(Len(issueIDs))
        /\ Len(success) = Len(issueIDs) /\ failed = << >>
        /\ \A k \in 1..Len(issueIDs) :
             /\ Cardinality(CallsWhere("Get", k)) = 2
             /\ Cardinality(CallsWhere("Create", k)) = 2
             /\ destIssues[k].orig = issueIDs[k]
             /\ destIssues[Len(issueIDs) + k].orig = issueIDs[k]
             /\ destIssues[Len(issueIDs) + k].body = destIssues[k].body
             /\ success[k] = MigrationStatus(issueIDs[k], Len(issueIDs) + k,
                                             WebURL(Len(issueIDs) + k), "")

\* two different IDs migrated twice: four destination issues
C25_Witness ==
    /\ BothRunsClean
    /\ Len(issueIDs) = 2 /\ issueIDs[1] # issueIDs[2]
    /\ Len(destIssues) = 4 /\ Len(success) = 2

----------------------------------------------------------------------------
(* specification of a migration request whose every external call returns: *)
(* the handler's goroutine keeps running, so a step that can be taken is    *)
(* taken                                                                    *)

\* the steps other than the scan of processGitLabToGitHub
StepsButScanGitLab ==
    \/ MigrateWithFiles
    \/ FetchIssue
    \/ ScanAttachments
    \/ ProcessAttachment
    \/ RewriteEntry
    \/ ProcessGitLabAttachment
    \/ RewriteGitLabEntry
    \/ CreateIssue
    \/ ListComments
    \/ PostComment
    \/ Respond

\* ScanGitLab can be taken exactly when this holds
ScanGitLabEnabled == proc = "processGitLabToGitHub" /\ apc = "scan"

\* weak fairness of every step; for ScanGitLab it is written out, with
\* ScanGitLabEnabled for ENABLED <<ScanGitLab>>_vars
SpecLive ==
    /\ Init /\ [][Next]_vars
    /\ WF_vars(StepsButScanGitLab)
    /\ ([]<>~ScanGitLabEnabled \/ []<><<ScanGitLab>>_vars)

\* the request names one of the two directions
ValidDirection == direction \in {"github-to-gitlab", "gitlab-to-github"}

\* C26: Idle -> Running -> Completed: when every external call returns, a
\* request with a valid direction always reaches Completed and returns the
\* ledger, whatever succeeds or fails on the way (a failed client
\* construction and a fetched issue or comment without its optional fields
\* included); it never stops in between without a ledger.
C26_AlwaysCompletes == ValidDirection ~> Returned

====
